---------------------------- MODULE Spec2Model ----------------------------
(***************************************************************************)
(* Input acquisition pipeline of keyboard_test:                            *)
(*   - the multitouch frame aggregator (TrackpadEventHandler),             *)
(*   - the serial touch decoder (serial_touch::Decoder),                   *)
(*   - the device registry, its listeners and the hot-plug scanner.        *)
(* Each component has its own variables and its own specification; the     *)
(* variables of the other components stay at their initial value.          *)
(***************************************************************************)
EXTENDS Integers, Sequences, FiniteSets, TLC

VARIABLES
    tp,          \* the TrackpadEventHandler of one listener
    tp_out,      \* the events the last handle_event call sent, in order
    tp_ev,       \* the raw event the last handle_event call was given
    tp_lifted,   \* Some(s) when that event lifted the finger held in slot s
    tp_panicked, \* the handler indexed slots out of bounds: its thread is gone
    tp_n,        \* raw events handed to the handler so far
    fingers      \* the fingers of the TrackpadTestScreen that takes the events
                 \* of the handler; None in a run whose consumer is another screen

tp_vars == <<tp, tp_out, tp_ev, tp_lifted, tp_panicked, tp_n, fingers>>

VARIABLES
    dec,         \* the serial Decoder
    ser_out,     \* what the last feed call returned: None or Some(Touch)
    ser_rx,      \* the bytes fed since the decoder last waited for a header
    ser_touch0,  \* is_touching before the first byte of ser_rx was fed
    ser_tick     \* flips at every feed call

ser_vars == <<dec, ser_out, ser_rx, ser_touch0, ser_tick>>

VARIABLES
    node,        \* per device path: "absent", "ok" (opens) or "locked" (open fails)
    dir_ok,      \* /dev/input can be read (fixed for a run)
    active,      \* active_devices: the HashSet of paths behind the mutex
    threads,     \* the listener threads, by thread slot
    scan_pc,     \* where the hot-plug monitor thread is
    scan_devs,   \* the devices of its current scan it has not looked at yet
    main_pc,     \* where spawn_device_listeners is
    main_devs,   \* the devices of the first enumeration not yet spawned
    ser_reader,  \* the serial reader thread was spawned
    log,         \* the lines the last step wrote to stderr
    last_err,    \* the error the last step's fetch_events returned, if any
    ended        \* history: the paths a listener has removed from the set as it ended

reg_vars == <<node, dir_ok, active, threads, scan_pc, scan_devs, main_pc,
              main_devs, ser_reader, log, last_err, ended>>

VARIABLES
    cal,             \* the Calibration of the touchscreen test screen
    last_position,   \* the screen's last_position: the last mapped touch
    panel,           \* the touch panel attached for this run
    cal_panicked,    \* the consumer thread has panicked
    cal_ev           \* history: the kind of event the screen handled last

cal_vars == <<cal, last_position, panel, cal_panicked,
              cal_ev>>

VARIABLES
    touchpad_x,  \* the running coordinate pair of a plain listener
    touchpad_y,
    computer_model, \* what get_computer_model answers on this unit
    lst_out,     \* the events the listener sent for its last raw event
    lst_ev,      \* the raw event it handled last
    lst_n,       \* flips at every raw event the listener handles
    lst_frame,   \* history: the Touch events sent since the last sync frame
    lst_down,    \* history: the last BTN_TOUCH value was a press
    lst_name     \* info.name of the device the listener reads

lst_vars == <<touchpad_x, touchpad_y, computer_model, lst_out, lst_ev, lst_n, lst_frame,
              lst_down, lst_name>>

VARIABLES
    chan,        \* the events in the channel of App::new, oldest first
    sent,        \* history: per producer, the events it has sent, in order
    got,         \* history: the events the consumer has received, in order
    model_cache, \* COMPUTER_MODEL: None until a thread has set it
    st_main,     \* where the startup thread is around spawn_reader
    l_pc,        \* where the listener thread of the touchscreen is
    rd_pc,       \* where the serial reader thread is
    attempts,    \* its count of failed opens
    rd_log,      \* the lines its last step wrote to stderr
    rd_ev        \* history: what its last step was

st_vars == <<chan, sent, got, model_cache, st_main, l_pc, rd_pc, attempts, rd_log, rd_ev>>

vars == <<tp_vars, ser_vars, reg_vars, cal_vars, lst_vars, st_vars>>

---------------------------------------------------------------------------
(* Option<T>: None is the empty tuple, Some(v) the one-element tuple.      *)
None == <<>>
Some(v) == <<v>>
IsSome(o) == Len(o) = 1
IsNone(o) == Len(o) = 0
Unwrap(o) == o[1]

---------------------------------------------------------------------------
(* Multitouch frame aggregator                                             *)

NumSlots == 10

\* `value as usize` of an i32: a negative value wraps to 2^64 + value, kept
\* symbolically as wrap = TRUE since the number itself exceeds TLC's integers.
AsUsize(value) == [wrap |-> value < 0, n |-> value]

\* slots[slot] is inside the vector
InBounds(u) == ~u.wrap /\ u.n < NumSlots

NewFingerState ==
    [x |-> None, y |-> None, pressure |-> None, major |-> None,
     width |-> None, pending |-> TRUE]

TrackpadEventHandler_new ==
    [slots |-> [s \in 0 .. NumSlots - 1 |-> None],
     current_slot |-> None,
     pending_finger_up |-> <<>>,
     pending_click |-> None,
     pending_finger_count |-> None]

MtAxisCodes ==
    {"ABS_MT_POSITION_X", "ABS_MT_POSITION_Y", "ABS_MT_PRESSURE",
     "ABS_MT_TOUCH_MAJOR", "ABS_MT_WIDTH_MAJOR"}

\* The field an axis code writes (event_handler.rs:116-137).
AxisField(f, code, value) ==
    CASE code = "ABS_MT_POSITION_X"  -> [f EXCEPT !.x = Some(value), !.pending = TRUE]
      [] code = "ABS_MT_POSITION_Y"  -> [f EXCEPT !.y = Some(value), !.pending = TRUE]
      [] code = "ABS_MT_PRESSURE"    -> [f EXCEPT !.pressure = Some(value), !.pending = TRUE]
      [] code = "ABS_MT_TOUCH_MAJOR" -> [f EXCEPT !.major = Some(value), !.pending = TRUE]
      [] code = "ABS_MT_WIDTH_MAJOR" -> [f EXCEPT !.width = Some(value), !.pending = TRUE]
      [] OTHER -> f

\* The slots with a pending update, in ascending slot order.
RECURSIVE PendingUpdates(_, _)
PendingUpdates(slots, s) ==
    IF s >= NumSlots THEN <<>>
    ELSE (IF IsSome(slots[s]) /\ Unwrap(slots[s]).pending
          THEN <<[type |-> "FingerUpdate", slot |-> s, state |-> Unwrap(slots[s])]>>
          ELSE <<>>)
         \o PendingUpdates(slots, s + 1)

ClickEvents(h) ==
    IF IsSome(h.pending_click)
    THEN <<[type |-> "Click", down |-> Unwrap(h.pending_click)]>>
    ELSE <<>>

FingerCountEvents(h) ==
    IF IsSome(h.pending_finger_count)
    THEN <<[type |-> "FingerCount", count |-> Unwrap(h.pending_finger_count)]>>
    ELSE <<>>

FingerUpEvents(h) ==
    [i \in 1 .. Len(h.pending_finger_up) |->
        [type |-> "FingerUp", slot |-> h.pending_finger_up[i]]]

\* a flush that leaves the pending flags of the slots as they are
ClearPendingKeepsFlags(slots) == slots

ClearPending(slots) ==
    [s \in 0 .. NumSlots - 1 |->
        IF IsSome(slots[s])
        THEN Some([Unwrap(slots[s]) EXCEPT !.pending = FALSE])
        ELSE None]

\* a flush that sends the finger updates before the lifts
FlushOutputUpdatesFirst(h) ==
    ClickEvents(h) \o FingerCountEvents(h) \o PendingUpdates(h.slots, 0)
        \o FingerUpEvents(h)

\* What one flush sends, in the order it sends it.
FlushOutput(h) ==
    ClickEvents(h) \o FingerCountEvents(h) \o FingerUpEvents(h)
        \o PendingUpdates(h.slots, 0)

flush_syn_report(h) ==
    [h |-> [h EXCEPT !.pending_click = None,
                     !.pending_finger_count = None,
                     !.pending_finger_up = <<>>,
                     !.slots = ClearPending(h.slots)],
     out |-> FlushOutput(h),
     panic |-> FALSE]

Quiet(h) == [h |-> h, out |-> <<>>, panic |-> FALSE]
Panic(h) == [h |-> h, out |-> <<>>, panic |-> TRUE]

\* a lift that queues the finger-up and leaves the finger in the slot
HandleTrackingIdKeepsFinger(h, value) ==
    IF IsNone(h.current_slot) THEN Quiet(h)
    ELSE LET u == Unwrap(h.current_slot) IN
         IF ~InBounds(u) THEN Panic(h)
         ELSE IF value < 0
              THEN IF IsSome(h.slots[u.n])
                   THEN Quiet([h EXCEPT !.slots[u.n] =
                                   Some([Unwrap(@) EXCEPT !.pending = TRUE]),
                                        !.pending_finger_up = Append(@, u.n)])
                   ELSE Quiet(h)
              ELSE Quiet([h EXCEPT !.slots[u.n] = Some(NewFingerState)])

\* ABS_MT_TRACKING_ID (event_handler.rs:91-110)
HandleTrackingId(h, value) ==
    IF IsNone(h.current_slot) THEN Quiet(h)
    ELSE LET u == Unwrap(h.current_slot) IN
         IF ~InBounds(u) THEN Panic(h)
         ELSE IF value < 0
              THEN IF IsSome(h.slots[u.n])
                   THEN Quiet([h EXCEPT !.slots[u.n] = None,
                                        !.pending_finger_up = Append(@, u.n)])
                   ELSE Quiet(h)
              ELSE Quiet([h EXCEPT !.slots[u.n] = Some(NewFingerState)])

\* any other absolute axis (event_handler.rs:113-141)
HandleAbsAxis(h, code, value) ==
    IF IsNone(h.current_slot) THEN Quiet(h)
    ELSE LET u == Unwrap(h.current_slot) IN
         IF ~InBounds(u) THEN Panic(h)
         ELSE IF IsSome(h.slots[u.n])
              THEN Quiet([h EXCEPT !.slots[u.n] =
                              Some(AxisField(Unwrap(h.slots[u.n]), code, value))])
              ELSE Quiet(h)

\* key events (event_handler.rs:144-161)
HandleKey(h, code, value) ==
    CASE code = "BTN_LEFT" -> Quiet([h EXCEPT !.pending_click = Some(value = 1)])
      [] code = "BTN_TOOL_FINGER" -> Quiet([h EXCEPT !.pending_finger_count = Some(1)])
      [] code = "BTN_TOOL_DOUBLETAP" -> Quiet([h EXCEPT !.pending_finger_count = Some(2)])
      [] code = "BTN_TOOL_TRIPLETAP" -> Quiet([h EXCEPT !.pending_finger_count = Some(3)])
      [] code = "BTN_TOOL_QUADTAP" -> Quiet([h EXCEPT !.pending_finger_count = Some(4)])
      [] OTHER -> Quiet(h)

handle_event(h, ev) ==
    CASE ev.type = "abs" /\ ev.code = "ABS_MT_SLOT" ->
            Quiet([h EXCEPT !.current_slot = Some(AsUsize(ev.value))])
      [] ev.type = "abs" /\ ev.code = "ABS_MT_TRACKING_ID" ->
            HandleTrackingId(h, ev.value)
      [] ev.type = "abs" /\ ev.code \notin {"ABS_MT_SLOT", "ABS_MT_TRACKING_ID"} ->
            HandleAbsAxis(h, ev.code, ev.value)
      [] ev.type = "key" -> HandleKey(h, ev.code, ev.value)
      [] ev.type = "syn" -> flush_syn_report(h)
      [] OTHER -> Quiet(h)

---------------------------------------------------------------------------
(* Serial touch decoder                                                    *)

\* bitwise or of two naturals
RECURSIVE BitOr(_, _)
BitOr(a, b) ==
    IF a = 0 THEN b
    ELSE IF b = 0 THEN a
    ELSE (IF a % 2 = 1 \/ b % 2 = 1 THEN 1 ELSE 0) + 2 * BitOr(a \div 2, b \div 2)

\* a coordinate read as a 9-bit shift
Combine7Shift8(hi, lo) == BitOr((hi * 256) % 65536, lo)

\* ((hi as u16) << 7) | (lo as u16)
Combine7(hi, lo) == BitOr((hi * 128) % 65536, lo)

Decoder_new == [state |-> 0, y_hi |-> 0, y_lo |-> 0, x_hi |-> 0, is_touching |-> FALSE]

\* a header wait in which 0xBF starts a frame without toggling
FeedHeaderNoToggle(d, byte) ==
    IF byte = 255 \/ byte = 191 THEN [d EXCEPT !.state = 1] ELSE d

\* a header wait in which every byte starts a frame
FeedHeaderAnyByte(d, byte) ==
    IF byte = 191 THEN [d EXCEPT !.is_touching = ~@, !.state = 1]
    ELSE [d EXCEPT !.state = 1]

\* state 0 (serial_touch.rs:34-41)
FeedHeader(d, byte) ==
    IF byte = 255 THEN [d EXCEPT !.state = 1]
    ELSE IF byte = 191 THEN [d EXCEPT !.is_touching = ~@, !.state = 1]
    ELSE d

\* a decoder in which a header byte restarts the frame wherever it arrives
FeedRestartingOnHeader(d, byte) ==
    CASE d.state = 0 \/ byte \in {255, 191} ->
            [d |-> FeedHeader([d EXCEPT !.state = 0], byte), out |-> None]
      [] d.state = 1 -> [d |-> [d EXCEPT !.y_hi = byte, !.state = 2], out |-> None]
      [] d.state = 2 -> [d |-> [d EXCEPT !.y_lo = byte, !.state = 3], out |-> None]
      [] d.state = 3 -> [d |-> [d EXCEPT !.x_hi = byte, !.state = 4], out |-> None]
      [] OTHER ->
            [d |-> [d EXCEPT !.state = 0],
             out |-> Some([type |-> "Touch",
                           x |-> Combine7(d.x_hi, byte),
                           y |-> Combine7(d.y_hi, d.y_lo),
                           released |-> ~d.is_touching])]

\* The capture timestamp of the Touch is the wall clock's and is left out.
feed(d, byte) ==
    CASE d.state = 0 -> [d |-> FeedHeader(d, byte), out |-> None]
      [] d.state = 1 -> [d |-> [d EXCEPT !.y_hi = byte, !.state = 2], out |-> None]
      [] d.state = 2 -> [d |-> [d EXCEPT !.y_lo = byte, !.state = 3], out |-> None]
      [] d.state = 3 -> [d |-> [d EXCEPT !.x_hi = byte, !.state = 4], out |-> None]
      [] d.state = 4 ->
            [d |-> [d EXCEPT !.state = 0],
             out |-> Some([type |-> "Touch",
                           x |-> Combine7(d.x_hi, byte),
                           y |-> Combine7(d.y_hi, d.y_lo),
                           released |-> ~d.is_touching])]
      [] OTHER -> [d |-> [d EXCEPT !.state = 0], out |-> None]

\* The bytes the serial line delivers: both headers, the bytes of the
\* documented frame, and bytes with and without the eighth bit.
SerBytes == {0, 1, 2, 16, 32, 127, 129, 191, 255}
HeaderBytes == {255, 191}

SerFeed(byte) ==
    /\ LET r == feed(dec, byte) IN
        /\ dec' = r.d
        /\ ser_out' = r.out
    /\ ser_rx' = IF dec.state = 0 THEN <<byte>> ELSE Append(ser_rx, byte)
    /\ ser_touch0' = IF dec.state = 0 THEN dec.is_touching ELSE ser_touch0
    /\ ser_tick' = ~ser_tick
    /\ UNCHANGED <<tp_vars, reg_vars, cal_vars, lst_vars, st_vars>>

SerFeedHeader == \E b \in HeaderBytes : dec.state = 0 /\ SerFeed(b)
SerFeedNoise == \E b \in SerBytes \ HeaderBytes : dec.state = 0 /\ SerFeed(b)
SerFeedData == \E b \in SerBytes : dec.state # 0 /\ SerFeed(b)

SerInit ==
    /\ dec = Decoder_new
    /\ ser_out = None
    /\ ser_rx = <<>>
    /\ ser_touch0 = FALSE
    /\ ser_tick = FALSE

SerNext == SerFeedHeader \/ SerFeedNoise \/ SerFeedData

---------------------------------------------------------------------------
(* The raw events the trackpad hardware delivers, within bounds.           *)

MaxSlotInput == 1          \* slot-select values 0 .. MaxSlotInput are in range
MaxTpEvents == 8           \* raw events of one run
TpSlotValues == (0 .. MaxSlotInput) \cup {NumSlots, -1}
TpTrackingIds == {-1, 5}
TpAxisValues == {7}
TpKeyInputs ==
    {<<"BTN_LEFT", 0>>, <<"BTN_LEFT", 1>>, <<"BTN_TOOL_FINGER", 1>>,
     <<"BTN_TOOL_DOUBLETAP", 1>>, <<"BTN_TOOL_TRIPLETAP", 1>>,
     <<"BTN_TOOL_QUADTAP", 1>>, <<"KEY_A", 1>>}

AbsEv(code, value) == [type |-> "abs", code |-> code, value |-> value]
KeyEv(code, value) == [type |-> "key", code |-> code, value |-> value]
SynEv == [type |-> "syn", code |-> "SYN_REPORT", value |-> 0]
RelEv == [type |-> "rel", code |-> "REL_X", value |-> 1]

\* the slot an event lifts a finger from, if it does
LiftOf(h, ev) ==
    IF /\ ev.type = "abs" /\ ev.code = "ABS_MT_TRACKING_ID" /\ ev.value < 0
       /\ IsSome(h.current_slot)
       /\ InBounds(Unwrap(h.current_slot))
       /\ IsSome(h.slots[Unwrap(h.current_slot).n])
    THEN Some(Unwrap(h.current_slot).n)
    ELSE None

---------------------------------------------------------------------------
(* Trackpad test screen: the finger table (trackpad_test.rs)               *)

MAX_SLOTS == 10

\* the fingers of TrackpadTestScreen::new (trackpad_test.rs:31-33)
TrackpadTestScreen_fingers == [s \in 0 .. MAX_SLOTS - 1 |-> None]

\* a screen that lays the fields of an update over the finger it holds
HandleEventMergingFields(f, event) ==
    CASE event.type = "FingerUpdate" ->
            IF event.slot < MAX_SLOTS
            THEN [f EXCEPT ![event.slot] =
                    IF IsSome(@)
                    THEN Some([k \in DOMAIN event.state |->
                                 IF k = "pending" \/ IsSome(event.state[k])
                                 THEN event.state[k] ELSE Unwrap(@)[k]])
                    ELSE Some(event.state)]
            ELSE f
      [] event.type = "FingerUp" ->
            IF event.slot < MAX_SLOTS THEN [f EXCEPT ![event.slot] = None] ELSE f
      [] OTHER -> f

\* the Trackpad arm of TrackpadTestScreen::handle_event, on the finger table
\* (trackpad_test.rs:256-275); Click and FingerCount write other fields
TrackpadTestScreen_handle_event(f, event) ==
    CASE event.type = "FingerUpdate" ->
            IF event.slot < MAX_SLOTS THEN [f EXCEPT ![event.slot] = Some(event.state)] ELSE f
      [] event.type = "FingerUp" ->
            IF event.slot < MAX_SLOTS THEN [f EXCEPT ![event.slot] = None] ELSE f
      [] OTHER -> f

\* the table after the screen has taken the events out, oldest first: the
\* channel hands them over in the order they were sent
RECURSIVE ScreenAfter(_, _)
ScreenAfter(f, out) ==
    IF out = <<>> THEN f
    ELSE ScreenAfter(TrackpadTestScreen_handle_event(f, Head(out)), Tail(out))

\* the screen, where it is the consumer, takes what the handler sent
ScreenTakes(screen, out) ==
    IF IsSome(screen) THEN Some(ScreenAfter(Unwrap(screen), out)) ELSE None

\* One raw event of a fetched batch is handed to the handler.
\* the listener thread is alive and the run has events left
TpRunning == ~tp_panicked /\ tp_n < MaxTpEvents

TpDeliver(ev) ==
    /\ tp_n' = tp_n + 1
    /\ LET r == handle_event(tp, ev) IN
        /\ tp' = r.h
        /\ tp_out' = r.out
        /\ tp_panicked' = r.panic
        /\ fingers' = ScreenTakes(fingers, r.out)
    /\ tp_ev' = ev
    /\ tp_lifted' = LiftOf(tp, ev)
    /\ UNCHANGED <<ser_vars, reg_vars, cal_vars, lst_vars, st_vars>>

TpSlotSelect == \E v \in TpSlotValues : TpRunning /\ TpDeliver(AbsEv("ABS_MT_SLOT", v))

TpTrackingId ==
    \E v \in TpTrackingIds : TpRunning /\ TpDeliver(AbsEv("ABS_MT_TRACKING_ID", v))

TpAxis ==
    \E c \in MtAxisCodes \cup {"ABS_X"}, v \in TpAxisValues :
        TpRunning /\ TpDeliver(AbsEv(c, v))

\* the keys of a run: with the trackpad test screen as consumer, whose
\* finger table no Click and no FingerCount writes, a click and one tool key
KeysOfRun ==
    IF IsSome(fingers)
    THEN {<<"BTN_LEFT", 1>>, <<"BTN_TOOL_FINGER", 1>>}
    ELSE TpKeyInputs

TpKey == \E k \in KeysOfRun : TpRunning /\ TpDeliver(KeyEv(k[1], k[2]))

TpSyn == TpRunning /\ TpDeliver(SynEv)

TpOther == TpRunning /\ TpDeliver(RelEv)

TpInit ==
    /\ tp = TrackpadEventHandler_new
    /\ tp_out = <<>>
    /\ tp_ev = RelEv
    /\ tp_lifted = None
    /\ tp_panicked = FALSE
    /\ tp_n = 0
    /\ fingers = None

\* the handler of a trackpad whose events the trackpad test screen takes
TpInitScreen ==
    /\ tp = TrackpadEventHandler_new
    /\ tp_out = <<>>
    /\ tp_ev = RelEv
    /\ tp_lifted = None
    /\ tp_panicked = FALSE
    /\ tp_n = 0
    /\ fingers = Some(TrackpadTestScreen_fingers)

TpNext == TpSlotSelect \/ TpTrackingId \/ TpAxis \/ TpKey \/ TpSyn \/ TpOther

---------------------------------------------------------------------------
(* Device registry: startup, listeners, hot-plug monitor                   *)

Paths == {"/dev/input/event0", "/dev/input/event1"}

\* the name each device node advertises
DeviceName(path) ==
    IF path = "/dev/input/event0" THEN "ETPS/2 Elantech Touchpad"
    ELSE "AT Translated Set 2 keyboard"

\* a listener that takes no device for the trackpad
IsTrackpadNameNever(name) == FALSE

\* info.name.contains("ETPS") (event_handler.rs:280)
IsTrackpadName(name) == name \in {"ETPS/2 Elantech Touchpad"}

IsTrackpad(path) == IsTrackpadName(DeviceName(path))

MaxThreads == 3            \* thread slots for listener threads
Tids == 1 .. MaxThreads

NoThread == [pc |-> "none", path |-> "", dev_ok |-> FALSE, h |-> TrackpadEventHandler_new]

IsFree(th) == th.pc = "none"
HasFree(ths) == \E t \in Tids : IsFree(ths[t])
FirstFree(ths) == CHOOSE t \in Tids : IsFree(ths[t]) /\ \A u \in Tids : IsFree(ths[u]) => t <= u

\* thread::spawn of spawn_device_listener: the thread owns dev and starts in
\* its stagger sleep.
spawn_device_listener(ths, d) ==
    [ths EXCEPT ![FirstFree(ths)] =
        [pc |-> "sleep", path |-> d.path, dev_ok |-> d.dev_ok,
         h |-> TrackpadEventHandler_new]]

\* the orders in which read_dir can list a set of paths
Orderings(S) ==
    {q \in [1 .. Cardinality(S) -> S] : \A i, j \in 1 .. Cardinality(S) : i # j => q[i] # q[j]}

\* get_devices: every event node that opens, as (Device, DeviceInfo); a node
\* that does not open is logged and skipped.
Openable == {p \in Paths : node[p] = "ok"}
Unopenable == {p \in Paths : node[p] = "locked"}
get_devices == {[i \in DOMAIN q |-> [path |-> q[i], dev_ok |-> TRUE]] : q \in Orderings(Openable)}
OpenFailures == {<<"Could not open device", p>> : p \in Unopenable}

\* an i/o error of fetch_events: its ErrorKind and raw os error
ENODEV == [kind |-> "Uncategorized", raw |-> Some(19)]
ReadErrors ==
    {ENODEV,
     [kind |-> "NotFound", raw |-> Some(2)],
     [kind |-> "Other", raw |-> None],
     [kind |-> "PermissionDenied", raw |-> Some(13)],
     [kind |-> "InvalidInput", raw |-> Some(22)]}

\* a classification that leaves out the ENODEV test
is_disconnect_by_kind(e) == e.kind = "NotFound" \/ e.kind = "Other"

\* event_handler.rs:341-343
is_disconnect(e) ==
    e.kind = "NotFound" \/ e.kind = "Other" \/ e.raw = Some(19)

\* a removal that clears the whole set
RemovePathClearsAll(set, path) == {}

\* set.remove(&path)
RemovePath(set, path) == set \ {path}

\* a monitor that takes every enumerated device for a new one
ScanIsNewAlways(set, path) == TRUE

\* a monitor that never takes a device for a new one
ScanIsNewNever(set, path) == FALSE

\* !set.contains(&path)
ScanIsNew(set, path) == path \notin set

ComputerModels ==
    {"DatorBBFalt", "DatorBBFaltGPS", "DatorBarbarRS11", "DatorBarbarCMBRF8", "EjKand"}

\* spawn_reader starts its thread on this model only (serial_touch.rs:79)
SpawnsReader(model) == model = "DatorBBFalt"

\* The raw events the trackpad delivers to a listener of the registry.
RegTpEvents == {AbsEv("ABS_MT_SLOT", NumSlots), AbsEv("ABS_MT_TRACKING_ID", 5), SynEv}

Quietly == log' = {} /\ last_err' = None
OnlyReg == UNCHANGED <<tp_vars, ser_vars, cal_vars, lst_vars, st_vars>>

\* spawn_device_listeners up to the first enumeration
MainEnumerate ==
    /\ main_pc = "start"
    /\ IF ~dir_ok
       THEN /\ main_pc' = "panic"
            /\ log' = {}
            /\ UNCHANGED main_devs
       ELSE /\ \E devs \in get_devices :
                /\ main_devs' = devs
                /\ main_pc' = IF devs = <<>> THEN "err" ELSE "spawning"
            /\ log' = OpenFailures
    /\ last_err' = None
    /\ UNCHANGED <<node, dir_ok, active, threads, scan_pc, scan_devs, ser_reader, ended>>
    /\ OnlyReg

\* one round of the initial spawn loop: insert the path, spawn its listener
MainSpawn ==
    /\ main_pc = "spawning"
    /\ main_devs # <<>>
    /\ HasFree(threads)
    /\ active' = active \cup {Head(main_devs).path}
    /\ threads' = spawn_device_listener(threads, Head(main_devs))
    /\ main_devs' = Tail(main_devs)
    /\ Quietly
    /\ UNCHANGED <<node, dir_ok, scan_pc, scan_devs, main_pc, ser_reader, ended>>
    /\ OnlyReg

\* the hot-plug monitor thread is spawned
MainSpawnMonitor ==
    /\ main_pc = "spawning"
    /\ main_devs = <<>>
    /\ scan_pc' = "sleep"
    /\ main_pc' = "serial"
    /\ Quietly
    /\ UNCHANGED <<node, dir_ok, active, threads, scan_devs, main_devs, ser_reader, ended>>
    /\ OnlyReg

\* let _ = serial_touch::spawn_reader(tx_clone); Ok(())
MainSerial ==
    /\ main_pc = "serial"
    /\ \E model \in ComputerModels : ser_reader' = SpawnsReader(model)
    /\ main_pc' = "ok"
    /\ Quietly
    /\ UNCHANGED <<node, dir_ok, active, threads, scan_pc, scan_devs, main_devs, ended>>
    /\ OnlyReg

\* the stagger sleep ends; the thread enters its read loop
ListenerWake(t) ==
    /\ threads[t].pc = "sleep"
    /\ threads' = [threads EXCEPT ![t].pc = "fetch"]
    /\ Quietly
    /\ UNCHANGED <<node, dir_ok, active, scan_pc, scan_devs, main_pc, main_devs, ser_reader, ended>>
    /\ OnlyReg

\* fetch_events returned an event of a trackpad: it goes to the handler, and an
\* index out of bounds there unwinds the thread.
ListenerTrackpadEvent(t) ==
    /\ threads[t].pc = "fetch"
    /\ threads[t].dev_ok
    /\ IsTrackpad(threads[t].path)
    /\ \E ev \in RegTpEvents :
        LET r == handle_event(threads[t].h, ev) IN
        threads' = IF r.panic THEN [threads EXCEPT ![t] = NoThread]
                   ELSE [threads EXCEPT ![t].h = r.h]
    /\ Quietly
    /\ UNCHANGED <<node, dir_ok, active, scan_pc, scan_devs, main_pc, main_devs, ser_reader, ended>>
    /\ OnlyReg

\* fetch_events returned Err(e): classify and log (event_handler.rs:338-347)
ListenerReadError(t) ==
    /\ threads[t].pc = "fetch"
    /\ \E e \in (IF threads[t].dev_ok THEN ReadErrors ELSE {ENODEV}) :
        /\ last_err' = Some(e)
        /\ log' = IF is_disconnect(e) THEN {}
                  ELSE {<<"Error fetching events from device", threads[t].path>>}
    /\ threads' = [threads EXCEPT ![t].pc = "remove"]
    /\ UNCHANGED <<node, dir_ok, active, scan_pc, scan_devs, main_pc, main_devs, ser_reader, ended>>
    /\ OnlyReg

\* the set is locked, the path removed, and the thread leaves its loop and
\* ends (event_handler.rs:349-352)
ListenerRemove(t) ==
    /\ threads[t].pc = "remove"
    /\ active' = RemovePath(active, threads[t].path)
    /\ threads' = [threads EXCEPT ![t] = NoThread]
    /\ ended' = ended \cup {threads[t].path}
    /\ Quietly
    /\ UNCHANGED <<node, dir_ok, scan_pc, scan_devs, main_pc, main_devs, ser_reader>>
    /\ OnlyReg

\* the monitor wakes and enumerates (event_handler.rs:385-387)
ScanEnumerate ==
    /\ scan_pc = "sleep"
    /\ IF ~dir_ok
       THEN /\ scan_pc' = "panic"
            /\ log' = {}
            /\ UNCHANGED scan_devs
       ELSE /\ \E devs \in get_devices :
                /\ scan_devs' = devs
                /\ scan_pc' = IF devs = <<>> THEN "sleep" ELSE "check"
            /\ log' = OpenFailures
    /\ last_err' = None
    /\ UNCHANGED <<node, dir_ok, active, threads, main_pc, main_devs, ser_reader, ended>>
    /\ OnlyReg

\* is_new: the set is locked and asked for the path (event_handler.rs:393-397)
ScanCheck ==
    /\ scan_pc = "check"
    /\ IF ScanIsNew(active, Head(scan_devs).path)
       THEN /\ scan_pc' = "spawn"
            /\ UNCHANGED scan_devs
       ELSE /\ scan_devs' = Tail(scan_devs)
            /\ scan_pc' = IF Tail(scan_devs) = <<>> THEN "sleep" ELSE "check"
    /\ Quietly
    /\ UNCHANGED <<node, dir_ok, active, threads, main_pc, main_devs, ser_reader, ended>>
    /\ OnlyReg

\* the set is locked again, the path inserted and the listener spawned
ScanSpawn ==
    /\ scan_pc = "spawn"
    /\ HasFree(threads)
    /\ active' = active \cup {Head(scan_devs).path}
    /\ threads' = spawn_device_listener(threads, Head(scan_devs))
    /\ scan_devs' = Tail(scan_devs)
    /\ scan_pc' = IF Tail(scan_devs) = <<>> THEN "sleep" ELSE "check"
    /\ Quietly
    /\ UNCHANGED <<node, dir_ok, main_pc, main_devs, ser_reader, ended>>
    /\ OnlyReg

\* every open handle of an unplugged device is dead
KillHandles(devs, path) ==
    [i \in DOMAIN devs |->
        IF devs[i].path = path THEN [devs[i] EXCEPT !.dev_ok = FALSE] ELSE devs[i]]

\* the device at a path is unplugged
Unplug(path) ==
    /\ node[path] # "absent"
    /\ node' = [node EXCEPT ![path] = "absent"]
    /\ threads' = [t \in Tids |->
                     IF threads[t].path = path
                     THEN [threads[t] EXCEPT !.dev_ok = FALSE]
                     ELSE threads[t]]
    /\ scan_devs' = KillHandles(scan_devs, path)
    /\ main_devs' = KillHandles(main_devs, path)
    /\ Quietly
    /\ UNCHANGED <<dir_ok, active, scan_pc, main_pc, ser_reader, ended>>
    /\ OnlyReg

\* a device appears at a path, openable or not
Plug(path) ==
    /\ node[path] = "absent"
    /\ \E st \in {"ok", "locked"} : node' = [node EXCEPT ![path] = st]
    /\ Quietly
    /\ UNCHANGED <<dir_ok, active, threads, scan_pc, scan_devs, main_pc, main_devs, ser_reader, ended>>
    /\ OnlyReg

RegInit ==
    /\ node \in [Paths -> {"absent", "ok", "locked"}]
    /\ dir_ok \in BOOLEAN
    /\ active = {}
    /\ threads = [t \in Tids |-> NoThread]
    /\ scan_pc = "off"
    /\ scan_devs = <<>>
    /\ main_pc = "start"
    /\ main_devs = <<>>
    /\ ser_reader = FALSE
    /\ log = {}
    /\ last_err = None
    /\ ended = {}

ListenerNext ==
    \E t \in Tids :
        \/ ListenerWake(t)
        \/ ListenerTrackpadEvent(t)
        \/ ListenerReadError(t)
        \/ ListenerRemove(t)

MonitorNext == ScanEnumerate \/ ScanCheck \/ ScanSpawn

RegNext ==
    \/ MainEnumerate \/ MainSpawn \/ MainSpawnMonitor \/ MainSerial
    \/ ListenerNext
    \/ MonitorNext
    \/ \E p \in Paths : Unplug(p) \/ Plug(p)

---------------------------------------------------------------------------
(* Calibration engine (touchscreen_test.rs)                                *)

MIN_SPAN_X == 100
MIN_SPAN_Y == 100
MIN_CORNER_DIST2 == 2500
MIN_DIAGONAL2 == 1000
CALIBRATED_MAX_X == 999
CALIBRATED_MAX_Y == 999
REQUIRED_HOLD_MS == 1000
MIN_TOLERANCE == 100
U16_MAX == 65535
I32_SQRT_MAX == 46340      \* the largest i32 whose square is an i32

Abs(v) == IF v < 0 THEN -v ELSE v
Max(a, b) == IF a >= b THEN a ELSE b
Min(a, b) == IF a <= b THEN a ELSE b
MinOf(S) == CHOOSE m \in S : \A v \in S : m <= v
MaxOf(S) == CHOOSE m \in S : \A v \in S : m >= v

RECURSIVE FloorLog2(_)
FloorLog2(n) == IF n <= 1 THEN 0 ELSE 1 + FloorLog2(n \div 2)

\* An f32 is kept as its 24-bit significand m and a scale s: the value is
\* m / 2^s with 2^23 <= m < 2^24.
F32One == [m |-> 8388608, s |-> 23]

\* the long division num / den, bit by bit, until the quotient has 24 bits,
\* then rounded to nearest, ties to even
RECURSIVE F32DivLoop(_, _, _, _)
F32DivLoop(q, r, den, s) ==
    IF q >= 8388608
    THEN LET up == 2 * r > den \/ (2 * r = den /\ q % 2 = 1)
             m == IF up THEN q + 1 ELSE q
         IN  IF m = 16777216 THEN [m |-> 8388608, s |-> s - 1]
             ELSE [m |-> m, s |-> s]
    ELSE F32DivLoop(2 * q + (IF 2 * r >= den THEN 1 ELSE 0), (2 * r) % den, den, s + 1)

\* (num as f32) / (den as f32) for integers 0 < num, den < 2^16
F32Div(num, den) == F32DivLoop(num \div den, num % den, den, 0)

\* ((d as f32) * f) as an unsigned integer, for an integer d < 2^16: the
\* product is rounded to 24 bits (nearest, ties to even), the cast truncates
\* and takes a negative product to 0. The 40-bit product d * m is held in two
\* limbs, since the checker's integers have 32 bits.
F32MulTrunc(d, f) ==
    IF d <= 0 THEN 0
    ELSE LET mh == f.m \div 4096
             ml == f.m % 4096
             C == d * mh + (d * ml) \div 4096
             L == (d * ml) % 4096
             t == f.s - 12
             n == C \div (2 ^ t)
             rem == (C % (2 ^ t)) * 4096 + L
             e == IF n = 0 THEN -1 ELSE FloorLog2(n)
             k == f.s + e - 24
             up == k >= 0 /\ (2 ^ f.s) - rem <= 2 ^ k
         IN  IF up THEN n + 1 ELSE n

\* a u32 in two 16-bit limbs
U32Less(u, k) == u.hi = 0 /\ u.lo < k

\* d * d of an i32 d with |d| < 2^16, as the u32 of its low 32 bits
Sq32(d) ==
    LET a == Abs(d) \div 256
        b == Abs(d) % 256
        t == 2 * a * b * 256
        lo == (t % 65536) + b * b
        hi == a * a + t \div 65536 + lo \div 65536
    IN  [hi |-> hi % 65536, lo |-> lo % 65536]

\* sx + sy of two u32 squares; big: a product already left the i32 range
D2Sum(sx, sy, big) ==
    LET lo == sx.lo + sy.lo
        hi == sx.hi + sy.hi + lo \div 65536
    IN  [overflow |-> big \/ hi >= 32768, hi |-> hi % 65536, lo |-> lo % 65536]

\* the closure d2 of finalize: (dx * dx + dy * dy) as u32 in i32 arithmetic.
\* overflow: a product or the sum leaves the i32 range, which panics in a
\* build with overflow checks and wraps in one without.
d2(a, b) ==
    D2Sum(Sq32(a.x - b.x), Sq32(a.y - b.y),
          Abs(a.x - b.x) > I32_SQRT_MAX \/ Abs(a.y - b.y) > I32_SQRT_MAX)

Pt(x, y) == [x |-> x, y |-> y]

CalibrationSteps ==
    <<"DeviceSelection", "TopLeft", "TopRight", "BottomRight", "BottomLeft", "Done">>

Calibration_new ==
    [step |-> "DeviceSelection",
     pts |-> [i \in 0 .. 3 |-> Pt(0, 0)],
     count |-> 0,
     min_x |-> 0, max_x |-> U16_MAX, min_y |-> 0, max_y |-> U16_MAX,
     invert_x |-> FALSE, invert_y |-> FALSE,
     scale_x |-> F32One, scale_y |-> F32One,
     is_touching |-> FALSE,
     error |-> None,
     touch_start_time |-> None,
     touch_start_pos |-> None,
     hold_duration_ms |-> 0,
     touch_samples |-> <<>>,
     available_devices |-> <<>>,
     selected_device_index |-> 0,
     selected_device_path |-> None,
     selected_device_info |-> None]

CalOk(c) == [c |-> c, panic |-> FALSE]
CalPanic(c) == [c |-> c, panic |-> TRUE]

\* a rejection that leaves no message
WithErrorUnset(c, msg) == CalOk(c)

\* finalize returns early with an error message
WithError(c, msg) == CalOk([c EXCEPT !.error = Some(msg)])

\* the derived mapping of a validated set of corners (touchscreen_test.rs:343-364)
FinalizeAccept(c, min_x, max_x, min_y, max_y) ==
    LET tl == c.pts[0]
        tr == c.pts[1]
        br == c.pts[2]
        bl == c.pts[3]
        top_y == (tl.y + tr.y) \div 2
        bottom_y == (bl.y + br.y) \div 2
    IN  [c EXCEPT !.min_x = min_x, !.max_x = max_x,
                  !.min_y = min_y, !.max_y = max_y,
                  !.invert_x = tr.x < tl.x,
                  !.invert_y = bottom_y < top_y,
                  !.scale_x = F32Div(CALIBRATED_MAX_X, Max(max_x - min_x, 1)),
                  !.scale_y = F32Div(CALIBRATED_MAX_Y, Max(max_y - min_y, 1)),
                  !.error = None]

\* the checks of finalize with the check of the diagonals ahead of the check
\* of the six pairs
FinalizeChecksDiagonalFirst(c, checks, min_x, max_x, min_y, max_y, all_pairs) ==
    IF max_x - min_x < MIN_SPAN_X
    THEN WithError(c, "Calibration failed: X span too small")
    ELSE IF max_y - min_y < MIN_SPAN_Y
    THEN WithError(c, "Calibration failed: Y span too small")
    ELSE IF checks /\ \E i \in 1 .. 6 : all_pairs[i].overflow
    THEN CalPanic(c)
    ELSE IF U32Less(all_pairs[5], MIN_DIAGONAL2) \/ U32Less(all_pairs[6], MIN_DIAGONAL2)
    THEN WithError(c, "Calibration failed: total area too small.")
    ELSE IF \E i \in 1 .. 6 : U32Less(all_pairs[i], MIN_CORNER_DIST2)
    THEN WithError(c, "Calibration failed: some samples too close together.")
    ELSE CalOk(FinalizeAccept(c, min_x, max_x, min_y, max_y))

\* the checks of finalize on the spans and the six pairwise distances
\* (touchscreen_test.rs:298-341)
FinalizeChecks(c, checks, min_x, max_x, min_y, max_y, all_pairs) ==
    IF max_x - min_x < MIN_SPAN_X
    THEN WithError(c, "Calibration failed: X span too small")
    ELSE IF max_y - min_y < MIN_SPAN_Y
    THEN WithError(c, "Calibration failed: Y span too small")
    ELSE IF checks /\ \E i \in 1 .. 6 : all_pairs[i].overflow
    THEN CalPanic(c)
    ELSE IF \E i \in 1 .. 6 : U32Less(all_pairs[i], MIN_CORNER_DIST2)
    THEN WithError(c, "Calibration failed: some samples too close together.")
    ELSE IF U32Less(all_pairs[5], MIN_DIAGONAL2) \/ U32Less(all_pairs[6], MIN_DIAGONAL2)
    THEN WithError(c, "Calibration failed: total area too small.")
    ELSE CalOk(FinalizeAccept(c, min_x, max_x, min_y, max_y))

\* all_pairs[5] and all_pairs[6] are the diagonals d2(tl, br) and d2(tr, bl)
finalize(c, checks) ==
    LET tl == c.pts[0]
        tr == c.pts[1]
        br == c.pts[2]
        bl == c.pts[3]
    IN  FinalizeChecks(c, checks,
                       MinOf({c.pts[i].x : i \in 0 .. 3}), MaxOf({c.pts[i].x : i \in 0 .. 3}),
                       MinOf({c.pts[i].y : i \in 0 .. 3}), MaxOf({c.pts[i].y : i \in 0 .. 3}),
                       <<d2(tl, tr), d2(tr, br), d2(br, bl), d2(bl, tl),
                         d2(tl, br), d2(tr, bl)>>)

\* a step function that passes over the top-right corner
NextStepSkipping(step) ==
    CASE step = "DeviceSelection" -> "DeviceSelection"
      [] step = "TopLeft" -> "BottomRight"
      [] step = "BottomRight" -> "BottomLeft"
      [] step = "BottomLeft" -> "Done"
      [] OTHER -> "Done"

\* the match on self.step of record_touch
NextStep(step) ==
    CASE step = "DeviceSelection" -> "DeviceSelection"
      [] step = "TopLeft" -> "TopRight"
      [] step = "TopRight" -> "BottomRight"
      [] step = "BottomRight" -> "BottomLeft"
      [] step = "BottomLeft" -> "Done"
      [] OTHER -> "Done"

\* a calibration that never counts as done
IsDoneNever(c) == FALSE

is_done(c) == c.step = "Done"

\* Option::max: None is below every Some
OptMax(a, b) ==
    IF IsNone(a) THEN b
    ELSE IF IsNone(b) THEN a
    ELSE Some(Max(Unwrap(a), Unwrap(b)))

\* MOVEMENT_TOLERANCE_PERCENT: the f32 nearest 0.025
MovementTolerance == F32Div(25, 1000)

\* the adaptive movement threshold (touchscreen_test.rs:214-220)
\* a tolerance that is the floor whatever the device reports
MaxMovementFloor(c) == MIN_TOLERANCE

max_movement(c) ==
    IF IsSome(c.selected_device_info)
    THEN LET info == Unwrap(c.selected_device_info)
             m == OptMax(info.abs_x_max, info.abs_y_max)
             device_max == IF IsSome(m) THEN Unwrap(m) ELSE 1000
         IN  Max(F32MulTrunc(device_max, MovementTolerance), MIN_TOLERANCE)
    ELSE MIN_TOLERANCE

\* a hold that starts again with the duration of the hold before it
StartHoldKeepsDuration(c, x, y, t) ==
    [c EXCEPT !.touch_start_time = Some(t),
              !.touch_start_pos = Some(Pt(x, y)),
              !.touch_samples = <<Pt(x, y)>>]

\* a hold starts (again) at (x, y) at time t
StartHold(c, x, y, t) ==
    [c EXCEPT !.touch_start_time = Some(t),
              !.touch_start_pos = Some(Pt(x, y)),
              !.hold_duration_ms = 0,
              !.touch_samples = <<Pt(x, y)>>]

ResetHold(c) ==
    [c EXCEPT !.touch_start_time = None,
              !.touch_start_pos = None,
              !.hold_duration_ms = 0,
              !.touch_samples = <<>>]

RECURSIVE SumX(_)
SumX(samples) == IF samples = <<>> THEN 0 ELSE Head(samples).x + SumX(Tail(samples))

RECURSIVE SumY(_)
SumY(samples) == IF samples = <<>> THEN 0 ELSE Head(samples).y + SumY(Tail(samples))

\* a rejected set of corners restarts at the first corner with the count left
\* at four
AfterFinalizeKeepsCount(r) ==
    IF ~r.panic /\ IsSome(r.c.error)
    THEN CalOk([r.c EXCEPT !.step = "TopLeft"])
    ELSE r

\* a rejected set of corners restarts at the first corner
\* (touchscreen_test.rs:263-273)
AfterFinalize(r) ==
    IF ~r.panic /\ IsSome(r.c.error)
    THEN CalOk([r.c EXCEPT !.step = "TopLeft", !.count = 0])
    ELSE r

\* the corner avg is stored, the step advances, and the fourth corner is validated
StoreCorner(c, avg, checks) ==
    IF c.count > 3 THEN CalPanic(c)
    ELSE IF NextStep(c.step) = "Done"
    THEN AfterFinalize(finalize([c EXCEPT !.pts[c.count] = avg,
                                          !.count = @ + 1,
                                          !.step = NextStep(c.step)], checks))
    ELSE CalOk([c EXCEPT !.pts[c.count] = avg,
                         !.count = @ + 1,
                         !.step = NextStep(c.step)])

\* a capture that takes the last sample of the hold for the corner
CaptureLastSample(c, checks) ==
    StoreCorner(c, c.touch_samples[Len(c.touch_samples)], checks)

\* the mean of the samples of the hold is the corner (touchscreen_test.rs:250-262)
CaptureCorner(c, checks) ==
    StoreCorner(c,
                Pt(SumX(c.touch_samples) \div Len(c.touch_samples),
                   SumY(c.touch_samples) \div Len(c.touch_samples)),
                checks)

\* a touch that is down (touchscreen_test.rs:191-241)
RecordDown(c, x, y, t) ==
    LET c1 == [c EXCEPT !.is_touching = TRUE]
    IN  IF IsNone(c.touch_start_time) THEN StartHold(c1, x, y, t)
        ELSE IF IsSome(c.touch_start_pos)
        THEN LET start == Unwrap(c.touch_start_pos)
                 dx == Abs(x - start.x)
                 dy == Abs(y - start.y)
             IN  IF dx > max_movement(c) \/ dy > max_movement(c)
                 THEN StartHold(c1, x, y, t)
                 ELSE [c1 EXCEPT !.touch_samples = Append(@, Pt(x, y))]
        ELSE c1

\* the hold state is cleared by every release (touchscreen_test.rs:277-281)
EndHold(r) == [c |-> ResetHold(r.c), panic |-> r.panic]

\* a release that takes a hold of any length for long enough
RecordUpAnyHold(c, checks) ==
    EndHold(IF c.touch_samples # <<>>
            THEN CaptureCorner([c EXCEPT !.is_touching = FALSE], checks)
            ELSE CalOk([c EXCEPT !.is_touching = FALSE]))

\* a release (touchscreen_test.rs:243-282)
RecordUp(c, checks) ==
    EndHold(IF c.hold_duration_ms >= REQUIRED_HOLD_MS /\ c.touch_samples # <<>>
            THEN CaptureCorner([c EXCEPT !.is_touching = FALSE], checks)
            ELSE CalOk([c EXCEPT !.is_touching = FALSE]))

record_touch(c, ev, t, checks) ==
    IF is_done(c) THEN CalOk(c)
    ELSE IF ~ev.released THEN CalOk(RecordDown(c, ev.x, ev.y, t))
    ELSE RecordUp(c, checks)

\* an update that also restarts the hold at the reading t
UpdateHoldRestarts(c, t) ==
    IF c.is_touching /\ IsSome(c.touch_start_time)
    THEN [c EXCEPT !.hold_duration_ms = Max(t - Unwrap(c.touch_start_time), 0),
                   !.touch_start_time = Some(t)]
    ELSE c

update_hold_duration(c, t) ==
    IF c.is_touching /\ IsSome(c.touch_start_time)
    THEN [c EXCEPT !.hold_duration_ms = Max(t - Unwrap(c.touch_start_time), 0)]
    ELSE c

\* one axis that is scaled without the translation by the recorded minimum
MapAxisNoTranslate(raw, min, scale, invert, target) ==
    LET n == Min(F32MulTrunc(raw, scale), target)
    IN  IF invert THEN Max(target - n, 0) ELSE n

\* one axis that is truncated without the clamp to the target range
MapAxisNoClamp(raw, min, scale, invert, target) ==
    LET n == F32MulTrunc(raw - min, scale)
    IN  IF invert THEN Max(target - n, 0) ELSE n

\* one axis that is reflected whether or not it is inverted
MapAxisAlwaysReflected(raw, min, scale, invert, target) ==
    Max(target - Min(F32MulTrunc(raw - min, scale), target), 0)

\* one axis of map: translate, scale, clamp, truncate, reflect
MapAxis(raw, min, scale, invert, target) ==
    LET n == Min(F32MulTrunc(raw - min, scale), target)
    IN  IF invert THEN Max(target - n, 0) ELSE n

map(c, raw_x, raw_y) ==
    Pt(MapAxis(raw_x, c.min_x, c.scale_x, c.invert_x, CALIBRATED_MAX_X),
       MapAxis(raw_y, c.min_y, c.scale_y, c.invert_y, CALIBRATED_MAX_Y))

map_raw(c, x, y) ==
    IF is_done(c) THEN map(c, x, y)
    ELSE Pt(Min(x, CALIBRATED_MAX_X), Min(y, CALIBRATED_MAX_Y))

ScreenOk(c, pos) == [c |-> c, pos |-> pos, panic |-> FALSE]

\* the calibration r.c changed and the last position did not
WithPos(r, pos) == [c |-> r.c, pos |-> pos, panic |-> r.panic]

\* the touch is ignored: it comes from a device other than the selected one
FromOtherDevice(c, ev) ==
    /\ IsSome(c.selected_device_path)
    /\ IsSome(ev.info)
    /\ Unwrap(ev.info).path # Unwrap(c.selected_device_path)

\* a collection that appends the device of every sourced touch
CollectDeviceAlways(c, ev) ==
    IF IsSome(ev.info)
    THEN [c EXCEPT !.available_devices = Append(@, Unwrap(ev.info))]
    ELSE c

\* device selection collects the devices that touch events name
CollectDevice(c, ev) ==
    IF /\ IsSome(ev.info)
       /\ \A i \in 1 .. Len(c.available_devices) :
            c.available_devices[i].path # Unwrap(ev.info).path
    THEN [c EXCEPT !.available_devices = Append(@, Unwrap(ev.info))]
    ELSE c

\* TouchscreenTestScreen::handle_touch; the trail, the statistics and the
\* grid are display state and left out.
handle_touch(c, pos, ev, t, checks) ==
    IF c.step = "DeviceSelection" THEN ScreenOk(CollectDevice(c, ev), pos)
    ELSE IF FromOtherDevice(c, ev) THEN ScreenOk(c, pos)
    ELSE IF is_done(c)
    THEN ScreenOk(c, IF ev.released THEN None ELSE Some(map_raw(c, ev.x, ev.y)))
    ELSE WithPos(record_touch(c, ev, t, checks), pos)

\* the device at index idx is chosen and calibration starts
SelectDevice(c, idx) ==
    [c EXCEPT !.selected_device_index = idx,
              !.selected_device_path = Some(c.available_devices[idx + 1].path),
              !.selected_device_info = Some(c.available_devices[idx + 1]),
              !.step = "TopLeft"]

DigitKeys == {"KEY_1", "KEY_2", "KEY_3", "KEY_4", "KEY_5", "KEY_6", "KEY_7", "KEY_8", "KEY_9"}

DigitIndex(code) ==
    CASE code = "KEY_1" -> 0 [] code = "KEY_2" -> 1 [] code = "KEY_3" -> 2
      [] code = "KEY_4" -> 3 [] code = "KEY_5" -> 4 [] code = "KEY_6" -> 5
      [] code = "KEY_7" -> 6 [] code = "KEY_8" -> 7 [] OTHER -> 8

\* the keys of the device selection screen (touchscreen_test.rs:1070-1129)
SelectionKey(c, code) ==
    LET n == Len(c.available_devices)
    IN  CASE code = "KEY_UP" ->
                IF n # 0
                THEN [c EXCEPT !.selected_device_index = (@ + n - 1) % n]
                ELSE c
          [] code = "KEY_DOWN" ->
                IF n # 0
                THEN [c EXCEPT !.selected_device_index = (@ + 1) % n]
                ELSE c
          [] code \in {"KEY_ENTER", "KEY_KPENTER"} ->
                IF n # 0 THEN SelectDevice(c, c.selected_device_index) ELSE c
          [] code \in DigitKeys ->
                IF DigitIndex(code) < n THEN SelectDevice(c, DigitIndex(code)) ELSE c
          [] OTHER -> c

\* the Key arm of TouchscreenTestScreen::handle_event
\* a recalibration that keeps the devices of the session
HandleKeyKeepsDevices(c, pos, code) ==
    IF code \in {"KEY_Q", "KEY_ESC"} THEN ScreenOk(c, pos)
    ELSE IF c.step = "DeviceSelection" THEN ScreenOk(SelectionKey(c, code), pos)
    ELSE IF code = "KEY_T"
    THEN ScreenOk([Calibration_new EXCEPT !.available_devices = c.available_devices,
                                          !.selected_device_path = c.selected_device_path,
                                          !.selected_device_info = c.selected_device_info],
                  None)
    ELSE ScreenOk(c, pos)

handle_key(c, pos, code) ==
    IF code \in {"KEY_Q", "KEY_ESC"} THEN ScreenOk(c, pos)
    ELSE IF c.step = "DeviceSelection" THEN ScreenOk(SelectionKey(c, code), pos)
    ELSE IF code = "KEY_R" /\ is_done(c) THEN ScreenOk(c, pos)
    ELSE IF code = "KEY_C" /\ is_done(c) THEN ScreenOk(c, pos)
    ELSE IF code = "KEY_T" THEN ScreenOk(Calibration_new, None)
    ELSE ScreenOk(c, pos)

\* the Tick arm: the hold duration follows the clock until calibration is done
handle_tick(c, t) == IF ~is_done(c) THEN update_hold_duration(c, t) ELSE c

---------------------------------------------------------------------------
(* The touch panels, keys and clock of a run, within bounds.               *)

MaxSamples == 1            \* samples of one hold

\* Readings of the wall clock. record_touch stores the reading taken when a
\* hold starts and update_hold_duration subtracts it from a later reading;
\* nothing else reads the clock, so every hold starts at the same reading.
ClockAtPress == 0

\* how long after the start of a hold a tick reads the clock
HoldReadings == {0, REQUIRED_HOLD_MS \div 2, REQUIRED_HOLD_MS}

\* what the clock can read at a tick: it has not gone back since the last tick
TickReadings(c) ==
    IF IsSome(c.touch_start_time)
    THEN {Unwrap(c.touch_start_time) + d : d \in {e \in HoldReadings : e >= c.hold_duration_ms}}
    ELSE {ClockAtPress}

PanelNames == {"unit", "offset", "wide", "tiny"}

\* the raw points a panel reports when its corners are touched
PanelPoints(p) ==
    CASE p \in {"unit", "shared"} -> {Pt(0, 0), Pt(999, 0), Pt(999, 999), Pt(0, 999)}
      [] p = "offset" -> {Pt(300, 200), Pt(1300, 501), Pt(1300, 350), Pt(300, 350)}
      [] p = "wide" -> {Pt(0, 0), Pt(62264, 0), Pt(62264, 20449), Pt(0, 20449)}
      [] p \in {"jitter", "unscaled"} -> {Pt(10, 10), Pt(13, 21), Pt(110, 10), Pt(111, 10)}
      [] p = "jitter4k" -> {Pt(10, 10), Pt(13, 21), Pt(112, 10), Pt(113, 10)}
      [] p = "paired" -> {Pt(0, 0), Pt(999, 999)}
      [] OTHER -> {Pt(0, 0), Pt(1, 0), Pt(1, 1), Pt(0, 1)}

\* the axis maxima a panel advertises
PanelMax(p) ==
    CASE p \in {"unit", "shared", "jitter", "paired"} -> Some(999)
      [] p \in {"offset", "jitter4k"} -> Some(4095)
      [] p = "wide" -> Some(65535)
      [] OTHER -> None

\* the panel "jitter4k" advertises no maximum for its second axis
PanelMaxY(p) == IF p = "jitter4k" THEN None ELSE PanelMax(p)

PanelInfo(p) ==
    [path |-> "/dev/input/event2", name |-> "touchscreen",
     abs_x_max |-> PanelMax(p), abs_y_max |-> PanelMaxY(p)]

TouchEv(x, y, released, info) ==
    [x |-> x, y |-> y, released |-> released, info |-> Some(info)]

\* a release reports the panel's first point; record_touch and the fields of
\* the screen kept here do not read the coordinates of a release
ReleasePoint(p) == CHOOSE q \in PanelPoints(p) : \A r \in PanelPoints(p) : q.x + q.y <= r.x + r.y

\* a second touch device, present next to the panel "shared"
OtherInfo ==
    [path |-> "/dev/input/event3", name |-> "second touchscreen",
     abs_x_max |-> None, abs_y_max |-> None]

\* a press and a release of the second device, and a press and a release
\* that name no device
OtherSources ==
    {TouchEv(0, 0, released, OtherInfo) : released \in BOOLEAN}
        \cup {[x |-> 0, y |-> 0, released |-> released, info |-> None] : released \in BOOLEAN}

TouchInputs ==
    {TouchEv(q.x, q.y, FALSE, PanelInfo(panel)) : q \in PanelPoints(panel)}
        \cup {TouchEv(ReleasePoint(panel).x, ReleasePoint(panel).y, TRUE, PanelInfo(panel))}
        \cup (IF panel \in {"shared", "paired"} THEN OtherSources ELSE {})

CalKeys == {"KEY_ENTER", "KEY_1", "KEY_T"}

\* on the panel "paired", which has a second device next to it, the
\* selection moves and the second entry is selected as well
PairedKeys == {"KEY_UP", "KEY_DOWN", "KEY_2"}

KeyInputs == CalKeys \cup (IF panel = "paired" THEN PairedKeys ELSE {})

\* the panels whose points lie around the movement tolerance of one another
JitterPanels == {"jitter", "jitter4k", "unscaled"}

\* three corners captured earlier in a run, the fourth one still to be held
HeldCorners == [i \in 0 .. 3 |-> CASE i = 0 -> Pt(10, 500)
                                    [] i = 1 -> Pt(500, 500)
                                    [] i = 2 -> Pt(160, 10)
                                    [] OTHER -> Pt(0, 0)]

\* the samples one hold takes: longer holds on the panels of JitterPanels,
\* which are pressed for one corner of a run only
SampleRoom(c) ==
    IF panel \in JitterPanels
    THEN IF c.pts \in {Calibration_new.pts, HeldCorners} THEN MaxSamples + 2 ELSE 0
    ELSE MaxSamples

\* the clock at a press: a hold starts at ClockAtPress, and a press during a
\* hold comes no earlier than the last Tick of the hold
PressReading(c) ==
    IF panel \in JitterPanels /\ IsSome(c.touch_start_time)
    THEN Unwrap(c.touch_start_time) + c.hold_duration_ms
    ELSE ClockAtPress

\* the hold of c takes one more sample
RoomForSample(c, ev) ==
    \/ ev.released
    \/ c.step \in {"DeviceSelection", "Done"}
    \/ FromOtherDevice(c, ev)
    \/ /\ Len(RecordDown(c, ev.x, ev.y, 0).touch_samples) <= SampleRoom(c)
       /\ PressReading(c) <= REQUIRED_HOLD_MS

\* what the screen was given, for the history variable cal_ev:
\*   "short"        a release reaches record_touch before the hold is long enough
\*   "long"         a release reaches record_touch after a hold that is long enough
\*   "recalibrate"  the key T outside device selection
\*   "t_selecting"  the key T during device selection
\*   "tick"         a Tick
\*   "foreign"      a Touch that names a device other than the selected one
\*   "unsourced"    a Touch that names no device, after a device was selected
\*   "other"        anything else
TouchKind(c, ev) ==
    IF IsSome(c.selected_device_path) /\ IsNone(ev.info) THEN "unsourced"
    ELSE IF FromOtherDevice(c, ev) THEN "foreign"
    ELSE IF c.step \in {"DeviceSelection", "Done"} \/ ~ev.released
    THEN "other"
    ELSE IF c.hold_duration_ms < REQUIRED_HOLD_MS THEN "short"
    ELSE "long"

KeyKind(c, code) ==
    IF code # "KEY_T" THEN "other"
    ELSE IF c.step # "DeviceSelection" THEN "recalibrate" ELSE "t_selecting"

CalRunning == ~cal_panicked

OnlyCal == UNCHANGED <<tp_vars, ser_vars, reg_vars, lst_vars, st_vars>>

\* the screen after a handler returned r
CalBecomes(r) ==
    /\ cal' = r.c
    /\ last_position' = r.pos
    /\ cal_panicked' = r.panic

\* Whether an integer overflow panics or wraps is the build's choice
\* (overflow-checks on or off); it shows only where finalize runs.
BuildChoices(c, ev) ==
    IF c.step = "BottomLeft" /\ ev.released THEN BOOLEAN ELSE {FALSE}

\* the consumer takes a Touch from the stream
CalTouch ==
    /\ CalRunning
    /\ \E ev \in TouchInputs : \E overflow_checks \in BuildChoices(cal, ev) :
        /\ RoomForSample(cal, ev)
        /\ CalBecomes(handle_touch(cal, last_position, ev, PressReading(cal), overflow_checks))
        /\ cal_ev' = TouchKind(cal, ev)
    /\ UNCHANGED panel
    /\ OnlyCal

\* the consumer takes a Key from the stream
CalKey ==
    /\ CalRunning
    /\ \E code \in KeyInputs :
        /\ CalBecomes(handle_key(cal, last_position, code))
        /\ cal_ev' = KeyKind(cal, code)
    /\ UNCHANGED panel
    /\ OnlyCal

\* the consumer takes a Tick from the stream
CalTick ==
    /\ CalRunning
    /\ \E t \in TickReadings(cal) : cal' = handle_tick(cal, t)
    /\ cal_ev' = "tick"
    /\ UNCHANGED <<last_position, panel, cal_panicked>>
    /\ OnlyCal

\* the screen as TouchscreenTestScreen::new leaves it
CalIdle ==
    /\ cal = Calibration_new
    /\ last_position = None
    /\ panel = "unit"
    /\ cal_panicked = FALSE
    /\ cal_ev = "other"

\* the screen is entered with some panel attached
CalInit ==
    /\ cal = Calibration_new
    /\ last_position = None
    /\ panel \in PanelNames
    /\ cal_panicked = FALSE
    /\ cal_ev = "other"

\* the screen is entered with the panel "shared" and a second device attached
CalInitShared ==
    /\ cal = Calibration_new
    /\ last_position = None
    /\ panel = "shared"
    /\ cal_panicked = FALSE
    /\ cal_ev = "other"

\* the screen is entered with the panel "paired" and a second device attached
CalInitPaired ==
    /\ cal = Calibration_new
    /\ last_position = None
    /\ panel = "paired"
    /\ cal_panicked = FALSE
    /\ cal_ev = "other"

\* the screen with the panel selected: before the first corner of a run, or
\* with three corners captured and the fourth one to be held
Calibration_selected(p) ==
    [Calibration_new EXCEPT !.step = "TopLeft",
                            !.available_devices = <<PanelInfo(p)>>,
                            !.selected_device_path = Some(PanelInfo(p).path),
                            !.selected_device_info = Some(PanelInfo(p))]

CalInitHold ==
    /\ panel \in JitterPanels
    /\ cal \in {Calibration_selected(panel),
                [Calibration_selected(panel) EXCEPT !.step = "BottomLeft",
                                                    !.count = 3,
                                                    !.pts = HeldCorners]}
    /\ last_position = None
    /\ cal_panicked = FALSE
    /\ cal_ev = "other"

CalNext == CalTouch \/ CalKey \/ CalTick

---------------------------------------------------------------------------
(* Plain listener: the events of a device that is not a trackpad           *)
(* (event_handler.rs:285-335)                                              *)

\* value as u16 and value as i16 of an i32
AsU16(value) == value % 65536
AsI16(value) == ((value + 32768) % 65536) - 32768

TouchOut(x, y, released) == [type |-> "Touch", x |-> x, y |-> y, released |-> released]
KeyOut(code) == [type |-> "Key", code |-> code]
MouseOut(x, y) == [type |-> "Mouse", x |-> x, y |-> y]

\* on the GPS model the axes of the touchpad are swapped
get_touch_event(x, y, released, model) ==
    IF model = "DatorBBFaltGPS" THEN TouchOut(y, x, released)
    ELSE TouchOut(x, y, released)

\* what one raw event does to the running pair (x, y), and what it sends
Plain(x, y, out) == [x |-> x, y |-> y, out |-> out]

PlainKey(x, y, model, ev) ==
    IF ev.code = "BTN_TOUCH"
    THEN Plain(x, y, <<get_touch_event(x, y, ev.value = 0, model)>>)
    ELSE IF ev.value = 1 THEN Plain(x, y, <<KeyOut(ev.code)>>)
    ELSE Plain(x, y, <<>>)

PlainAbs(x, y, model, ev) ==
    CASE ev.code = "ABS_X" ->
            Plain(AsU16(ev.value), y, <<get_touch_event(AsU16(ev.value), y, FALSE, model)>>)
      [] ev.code = "ABS_Y" ->
            Plain(x, AsU16(ev.value), <<get_touch_event(x, AsU16(ev.value), FALSE, model)>>)
      [] OTHER -> Plain(x, y, <<>>)

PlainRel(x, y, ev) ==
    CASE ev.code = "REL_X" -> Plain(x, y, <<MouseOut(AsI16(ev.value), 0)>>)
      [] ev.code = "REL_Y" -> Plain(x, y, <<MouseOut(0, AsI16(ev.value))>>)
      [] OTHER -> Plain(x, y, <<>>)

\* the match on event.destructure() of the listener loop
PlainEvent(x, y, model, ev) ==
    CASE ev.type = "key" -> PlainKey(x, y, model, ev)
      [] ev.type = "abs" -> PlainAbs(x, y, model, ev)
      [] ev.type = "rel" -> PlainRel(x, y, ev)
      [] OTHER -> Plain(x, y, <<>>)

MaxFrameTouches == 3       \* Touch events counted within one sync frame

\* the raw events a touchscreen, a keyboard or a mouse delivers
LstKeyInputs ==
    {KeyEv(code, value) : code \in {"BTN_TOUCH", "BTN_TOOL_FINGER", "BTN_TOOL_PEN", "KEY_A"},
                          value \in {0, 1, 2}}

LstAbsInputs ==
    {AbsEv(code, value) : code \in {"ABS_X", "ABS_Y", "ABS_PRESSURE"}, value \in {0, 512, 70000}}

LstRelInputs ==
    {[type |-> "rel", code |-> code, value |-> value] :
        code \in {"REL_X", "REL_Y", "REL_WHEEL"}, value \in {-3, 1}}

IsTouch(e) == e.type = "Touch"

\* the Touch events among a sequence of sent events
CountTouch(out) == Cardinality({i \in 1 .. Len(out) : IsTouch(out[i])})

OnlyLst == UNCHANGED <<tp_vars, ser_vars, reg_vars, cal_vars, st_vars>>

\* the listener takes the raw event ev from its device
LstDeliver(ev) ==
    /\ lst_frame + CountTouch(PlainEvent(touchpad_x, touchpad_y, computer_model, ev).out)
          <= MaxFrameTouches
    /\ touchpad_x' = PlainEvent(touchpad_x, touchpad_y, computer_model, ev).x
    /\ touchpad_y' = PlainEvent(touchpad_x, touchpad_y, computer_model, ev).y
    /\ lst_out' = PlainEvent(touchpad_x, touchpad_y, computer_model, ev).out
    /\ lst_ev' = ev
    /\ lst_n' = ~lst_n
    /\ lst_frame' =
          IF ev.type = "syn" THEN 0
          ELSE lst_frame + CountTouch(PlainEvent(touchpad_x, touchpad_y, computer_model, ev).out)
    /\ lst_down' = IF ev.type = "key" /\ ev.code = "BTN_TOUCH" THEN ev.value # 0 ELSE lst_down
    /\ UNCHANGED <<computer_model, lst_name>>
    /\ OnlyLst

\* the computer model was set before the listeners were spawned; the events
\* of a trackpad do not reach the match below (event_handler.rs:280-283)
LstRunning == computer_model \in ComputerModels /\ ~IsTrackpadName(lst_name)

LstKey == LstRunning /\ \E ev \in LstKeyInputs : LstDeliver(ev)

LstAbs == LstRunning /\ \E ev \in LstAbsInputs : LstDeliver(ev)

LstRel == LstRunning /\ \E ev \in LstRelInputs : LstDeliver(ev)

LstSyn == LstRunning /\ LstDeliver(SynEv)

\* the locals of the listener thread before its first event
LstIdle ==
    /\ touchpad_x = 0
    /\ touchpad_y = 0
    /\ computer_model = "EjKand"
    /\ lst_out = <<>>
    /\ lst_ev = SynEv
    /\ lst_n = FALSE
    /\ lst_frame = 0
    /\ lst_down = FALSE
    /\ lst_name = DeviceName("/dev/input/event1")

\* the listener of a device on any computer model
LstInit ==
    /\ touchpad_x = 0
    /\ touchpad_y = 0
    /\ computer_model \in ComputerModels
    /\ lst_out = <<>>
    /\ lst_ev = SynEv
    /\ lst_n = FALSE
    /\ lst_frame = 0
    /\ lst_down = FALSE
    /\ lst_name = DeviceName("/dev/input/event1")

\* AppEvent::Trackpad { event }
TrackpadOut(e) == [type |-> "Trackpad", event |-> e]

\* raw events of every type, as the trackpad or any other device may deliver them
ForwardInputs ==
    {KeyEv("BTN_TOUCH", 1), KeyEv("BTN_TOUCH", 0), KeyEv("KEY_A", 1), KeyEv("BTN_LEFT", 1),
     KeyEv("BTN_TOOL_FINGER", 1), AbsEv("ABS_X", 512), AbsEv("ABS_MT_SLOT", 0),
     AbsEv("ABS_MT_TRACKING_ID", 5), AbsEv("ABS_MT_POSITION_X", 7),
     [type |-> "rel", code |-> "REL_X", value |-> 1], SynEv}

\* the listener of a trackpad hands the raw event to its TrackpadEventHandler
\* and goes on to the next event (event_handler.rs:278-283)
LstForward ==
    /\ computer_model \in ComputerModels
    /\ IsTrackpadName(lst_name)
    /\ TpRunning
    /\ \E ev \in ForwardInputs :
        /\ tp' = handle_event(tp, ev).h
        /\ tp_out' = handle_event(tp, ev).out
        /\ tp_panicked' = handle_event(tp, ev).panic
        /\ fingers' = ScreenTakes(fingers, handle_event(tp, ev).out)
        /\ tp_ev' = ev
        /\ tp_lifted' = LiftOf(tp, ev)
        /\ lst_out' = [i \in 1 .. Len(handle_event(tp, ev).out) |->
                          TrackpadOut(handle_event(tp, ev).out[i])]
        /\ lst_ev' = ev
    /\ tp_n' = tp_n + 1
    /\ lst_n' = ~lst_n
    /\ UNCHANGED <<touchpad_x, touchpad_y, computer_model, lst_frame, lst_down, lst_name>>
    /\ UNCHANGED <<ser_vars, reg_vars, cal_vars, st_vars>>

\* the listener of a device of any name
LstInitNamed ==
    /\ touchpad_x = 0
    /\ touchpad_y = 0
    /\ computer_model = "EjKand"
    /\ lst_out = <<>>
    /\ lst_ev = SynEv
    /\ lst_n = FALSE
    /\ lst_frame = 0
    /\ lst_down = FALSE
    /\ lst_name \in {DeviceName(path) : path \in Paths}

LstNext == LstKey \/ LstAbs \/ LstRel \/ LstSyn

LstNamedNext == LstNext \/ LstForward

---------------------------------------------------------------------------
(* Event stream: the channel, its producers and its consumer               *)
(* (main.rs, event_handler.rs, serial_touch.rs, machine_detect.rs)         *)

Producers == {"listener", "serial"}

MaxSent == 2               \* events one producer sends in a run
MaxAttempts == 11          \* failed opens of the serial port in a run

OPEN_LOG_EVERY == 10
SERIAL_MODEL == "DatorBBFalt"

\* the n-th event of producer p
Msg(p, kind, n) == [src |-> p, kind |-> kind, n |-> n]

\* a channel that hands out the newest event first
SendInFront(q, m) == <<m>> \o q

\* Sender::send on the unbounded channel: the event joins the queue at its end
send(q, m) == Append(q, m)

\* producer p sends its next event, of the given kind
Emits(p, kind) ==
    /\ Len(sent[p]) < MaxSent
    /\ chan' = send(chan, Msg(p, kind, Len(sent[p]) + 1))
    /\ sent' = [sent EXCEPT ![p] = Append(@, Msg(p, kind, Len(sent[p]) + 1))]

\* machine_detect.rs:24-29
has_serial_touchscreen(c) == c = SERIAL_MODEL

\* a failed open that is logged every time
LogsEveryFailure(n) == TRUE

\* attempts % 10 == 0 (serial_touch.rs:128)
LogsFailure(n) == n % OPEN_LOG_EVERY = 0

\* spawn_reader once get_computer_model has answered model
\* (serial_touch.rs:78-135): the thread starts at its first open, or
\* nothing is spawned and the Err is dropped by the caller
ReaderSpawned(model) == IF SpawnsReader(model) THEN "open" ELSE "refused"

OnlySt == UNCHANGED <<tp_vars, ser_vars, reg_vars, cal_vars, lst_vars>>

\* the startup thread calls spawn_reader, whose first statement calls
\* get_computer_model: a filled cache answers at once
\* (machine_detect.rs:42-45), an empty one sends the thread to read the model
StMainCall ==
    /\ st_main = "spawned"
    /\ IF IsSome(model_cache)
       THEN /\ rd_pc' = ReaderSpawned(Unwrap(model_cache))
            /\ st_main' = "ok"
       ELSE /\ st_main' = "detect"
            /\ UNCHANGED rd_pc
    /\ UNCHANGED <<chan, sent, got, model_cache, l_pc, attempts, rd_log, rd_ev>>
    /\ OnlySt

\* COMPUTER_MODEL.set(Some(read_model)).unwrap() in the startup thread
\* (machine_detect.rs:47-51): set fails when another thread has filled the
\* cache since, and the unwrap panics
StMainSet ==
    /\ st_main = "detect"
    /\ IF IsNone(model_cache)
       THEN /\ model_cache' = Some(computer_model)
            /\ rd_pc' = ReaderSpawned(computer_model)
            /\ st_main' = "ok"
       ELSE /\ st_main' = "panic"
            /\ UNCHANGED <<model_cache, rd_pc>>
    /\ UNCHANGED <<chan, sent, got, l_pc, attempts, rd_log, rd_ev>>
    /\ OnlySt

\* the listener sends a Key (event_handler.rs:296)
LKey ==
    /\ l_pc = "fetch"
    /\ Emits("listener", "Key")
    /\ UNCHANGED <<got, model_cache, st_main, l_pc, rd_pc, attempts, rd_log, rd_ev>>
    /\ OnlySt

\* the listener builds a Touch: get_touch_event calls get_computer_model
\* (event_handler.rs:366), then the Touch is sent
LTouchCall ==
    /\ l_pc = "fetch"
    /\ IF IsSome(model_cache)
       THEN Emits("listener", "Touch") /\ UNCHANGED l_pc
       ELSE l_pc' = "detect" /\ UNCHANGED <<chan, sent>>
    /\ UNCHANGED <<got, model_cache, st_main, rd_pc, attempts, rd_log, rd_ev>>
    /\ OnlySt

\* COMPUTER_MODEL.set(Some(read_model)).unwrap() in the listener thread
LTouchSet ==
    /\ l_pc = "detect"
    /\ IF IsNone(model_cache)
       THEN /\ model_cache' = Some(computer_model)
            /\ Emits("listener", "Touch")
            /\ l_pc' = "fetch"
       ELSE /\ l_pc' = "dead"
            /\ UNCHANGED <<chan, sent, model_cache>>
    /\ UNCHANGED <<got, st_main, rd_pc, attempts, rd_log, rd_ev>>
    /\ OnlySt

\* the port opens (serial_touch.rs:94-104)
RdOpenOk ==
    /\ rd_pc = "open"
    /\ rd_pc' = "read"
    /\ rd_log' = {}
    /\ rd_ev' = "opened"
    /\ UNCHANGED <<chan, sent, got, model_cache, st_main, l_pc, attempts>>
    /\ OnlySt

\* the open fails (serial_touch.rs:126-131)
RdOpenFail ==
    /\ rd_pc = "open"
    /\ attempts < MaxAttempts
    /\ attempts' = attempts + 1
    /\ rd_log' = IF LogsFailure(attempts + 1) THEN {"Failed to open serial port"} ELSE {}
    /\ rd_pc' = "delay"
    /\ rd_ev' = "open_failed"
    /\ UNCHANGED <<chan, sent, got, model_cache, st_main, l_pc>>
    /\ OnlySt

\* thread::sleep(Duration::from_secs(1)) ends (serial_touch.rs:131)
RdDelay ==
    /\ rd_pc = "delay"
    /\ rd_pc' = "open"
    /\ rd_log' = {}
    /\ rd_ev' = "delayed"
    /\ UNCHANGED <<chan, sent, got, model_cache, st_main, l_pc, attempts>>
    /\ OnlySt

\* read returns bytes (serial_touch.rs:107-113); a read whose bytes complete
\* several frames sends their Touch events one send after another, as
\* several reads of one frame do
RdReadData ==
    /\ rd_pc = "read"
    /\ \/ Emits("serial", "Touch")
       \/ UNCHANGED <<chan, sent>>
    /\ rd_log' = {}
    /\ rd_ev' = "data"
    /\ UNCHANGED <<got, model_cache, st_main, l_pc, rd_pc, attempts>>
    /\ OnlySt

\* read returns Ok(0) (serial_touch.rs:114-116)
RdReadEmpty ==
    /\ rd_pc = "read"
    /\ rd_pc' = "nap"
    /\ rd_log' = {}
    /\ rd_ev' = "empty"
    /\ UNCHANGED <<chan, sent, got, model_cache, st_main, l_pc, attempts>>
    /\ OnlySt

\* thread::sleep(Duration::from_millis(2)) ends
RdNap ==
    /\ rd_pc = "nap"
    /\ rd_pc' = "read"
    /\ rd_log' = {}
    /\ rd_ev' = "napped"
    /\ UNCHANGED <<chan, sent, got, model_cache, st_main, l_pc, attempts>>
    /\ OnlySt

\* read returns Err(TimedOut): nothing is logged and the loop reads again
\* (serial_touch.rs:117-122)
RdReadTimeout ==
    /\ rd_pc = "read"
    /\ rd_log' = {}
    /\ rd_ev' = "timeout"
    /\ UNCHANGED <<chan, sent, got, model_cache, st_main, l_pc, rd_pc, attempts>>
    /\ OnlySt

\* read returns any other error: it is logged, the inner loop is left, the
\* port is dropped and the outer loop opens again (serial_touch.rs:117-122)
RdReadError ==
    /\ rd_pc = "read"
    /\ rd_pc' = "open"
    /\ rd_log' = {"Error reading from serial port"}
    /\ rd_ev' = "error"
    /\ UNCHANGED <<chan, sent, got, model_cache, st_main, l_pc, attempts>>
    /\ OnlySt

RdNext ==
    \/ RdOpenOk \/ RdOpenFail \/ RdDelay
    \/ RdReadData \/ RdReadEmpty \/ RdNap \/ RdReadTimeout \/ RdReadError

\* fetch_next_event: recv takes the oldest event (main.rs:254-256); the
\* consumer is the startup thread, once spawn_device_listeners has returned
StRecv ==
    /\ st_main = "ok"
    /\ chan # <<>>
    /\ got' = Append(got, Head(chan))
    /\ chan' = Tail(chan)
    /\ UNCHANGED <<sent, model_cache, st_main, l_pc, rd_pc, attempts, rd_log, rd_ev>>
    /\ OnlySt

\* the stream before anything runs
StIdle ==
    /\ chan = <<>>
    /\ sent = [p \in Producers |-> <<>>]
    /\ got = <<>>
    /\ model_cache = None
    /\ st_main = "spawned"
    /\ l_pc = "fetch"
    /\ rd_pc = "unspawned"
    /\ attempts = 0
    /\ rd_log = {}
    /\ rd_ev = "none"

StNext == StMainCall \/ StMainSet \/ LKey \/ LTouchCall \/ LTouchSet \/ RdNext \/ StRecv

---------------------------------------------------------------------------
(* Specifications                                                          *)

\* the initial states of the components a specification leaves alone
RegIdle ==
    /\ node = [p \in Paths |-> "absent"]
    /\ dir_ok = TRUE
    /\ active = {}
    /\ threads = [t \in Tids |-> NoThread]
    /\ scan_pc = "off"
    /\ scan_devs = <<>>
    /\ main_pc = "start"
    /\ main_devs = <<>>
    /\ ser_reader = FALSE
    /\ log = {}
    /\ last_err = None
    /\ ended = {}

\* one handler or decoder on its own: the registry has not started
InitIdle == TpInit /\ SerInit /\ RegIdle /\ CalIdle /\ LstIdle /\ StIdle

\* the registry before startup, with any devices plugged in
InitDevices == TpInit /\ SerInit /\ RegInit /\ CalIdle /\ LstIdle /\ StIdle

\* the touchscreen test screen is entered; nothing else runs
InitCalibration == TpInit /\ SerInit /\ RegIdle /\ CalInit /\ LstIdle /\ StIdle

SpecTrackpad == InitIdle /\ [][TpNext]_vars

\* one trackpad listener and the trackpad test screen that takes its events
InitScreen == TpInitScreen /\ SerInit /\ RegIdle /\ CalIdle /\ LstIdle /\ StIdle

SpecScreen == InitScreen /\ [][TpNext]_vars

SpecSerial == InitIdle /\ [][SerNext]_vars

SpecDevices == InitDevices /\ [][RegNext]_vars

SpecCalibration == InitCalibration /\ [][CalNext]_vars

\* the touchscreen test screen with two touch devices and a source that
\* names no device
InitSources == TpInit /\ SerInit /\ RegIdle /\ CalInitShared /\ LstIdle /\ StIdle

SpecSources == InitSources /\ [][CalNext]_vars

InitSelection == TpInit /\ SerInit /\ RegIdle /\ CalInitPaired /\ LstIdle /\ StIdle

SpecSelection == InitSelection /\ [][CalNext]_vars

InitHold == TpInit /\ SerInit /\ RegIdle /\ CalInitHold /\ LstIdle /\ StIdle

SpecHold == InitHold /\ [][CalNext]_vars

\* one listener thread of a plain device; nothing else runs
InitListener == TpInit /\ SerInit /\ RegIdle /\ CalIdle /\ LstInit /\ StIdle

SpecListener == InitListener /\ [][LstNext]_vars

\* one listener thread of a device of either name; nothing else runs
InitNamed == TpInit /\ SerInit /\ RegIdle /\ CalIdle /\ LstInitNamed /\ StIdle

SpecNamed == InitNamed /\ [][LstNamedNext]_vars

\* the listeners are spawned and past their stagger sleep, the startup thread
\* is about to call spawn_reader, on any computer model
InitStream == TpInit /\ SerInit /\ RegIdle /\ CalIdle /\ LstInit /\ StIdle

SpecStream == InitStream /\ [][StNext]_vars

\* the serial reader thread is scheduled again and again
SpecStreamFair == SpecStream /\ WF_vars(RdNext)

\* The monitor thread loops for ever and is scheduled again and again.
SpecDevicesFair ==
    SpecDevices /\ WF_vars(ScanEnumerate) /\ WF_vars(ScanCheck) /\ WF_vars(ScanSpawn)

---------------------------------------------------------------------------
(* Claims on the aggregator                                                *)

IsClick(e) == e.type = "Click"
IsFingerCount(e) == e.type = "FingerCount"
IsFingerUp(e) == e.type = "FingerUp"
IsFingerUpdate(e) == e.type = "FingerUpdate"

EventRank(e) ==
    CASE e.type = "Click" -> 1
      [] e.type = "FingerCount" -> 2
      [] e.type = "FingerUp" -> 3
      [] e.type = "FingerUpdate" -> 4

SlotsOf(events) == [i \in 1 .. Len(events) |-> events[i].slot]

DirtySlots(h) ==
    {s \in 0 .. NumSlots - 1 : IsSome(h.slots[s]) /\ Unwrap(h.slots[s]).pending}

\* the step hands a sync-frame event to the handler
SynStep == tp_n' = tp_n + 1 /\ tp_ev' = SynEv

\* `out` is what a flush of handler state h has to send, in order
FlushOrdered(h, out) ==
    LET ups == SelectSeq(out, IsFingerUp)
        upd == SelectSeq(out, IsFingerUpdate)
        clk == SelectSeq(out, IsClick)
        cnt == SelectSeq(out, IsFingerCount)
    IN  /\ \A i, j \in 1 .. Len(out) : i < j => EventRank(out[i]) <= EventRank(out[j])
        /\ Len(clk) = (IF IsSome(h.pending_click) THEN 1 ELSE 0)
        /\ \A i \in 1 .. Len(clk) : clk[i].down = Unwrap(h.pending_click)
        /\ Len(cnt) = (IF IsSome(h.pending_finger_count) THEN 1 ELSE 0)
        /\ \A i \in 1 .. Len(cnt) : cnt[i].count = Unwrap(h.pending_finger_count)
        /\ SlotsOf(ups) = h.pending_finger_up
        /\ \A i, j \in 1 .. Len(upd) : i < j => upd[i].slot < upd[j].slot
        /\ {upd[i].slot : i \in 1 .. Len(upd)} = DirtySlots(h)
        /\ \A i \in 1 .. Len(upd) : upd[i].state = Unwrap(h.slots[upd[i].slot])

\* C1: a sync-frame event sends, in this order, at most one Click (the pending
\* click), at most one FingerCount (the pending count), one FingerUp per queued
\* lift in queue order, and one FingerUpdate per dirty slot in ascending slot
\* order; no click or count follows a finger-up, no finger-up a finger-update.
C1_FlushOrder == [][SynStep => FlushOrdered(tp, tp_out')]_vars

\* C1 witness: one flush sent a click, a finger count, a finger-up and a
\* finger-update.
C1_Witness ==
    /\ tp_ev = SynEv
    /\ Len(SelectSeq(tp_out, IsClick)) = 1
    /\ Len(SelectSeq(tp_out, IsFingerCount)) = 1
    /\ Len(SelectSeq(tp_out, IsFingerUp)) >= 1
    /\ Len(SelectSeq(tp_out, IsFingerUpdate)) >= 1

CountUps(out, s) == Cardinality({i \in 1 .. Len(out) : IsFingerUp(out[i]) /\ out[i].slot = s})
HasUpdate(out, s) == \E i \in 1 .. Len(out) : IsFingerUpdate(out[i]) /\ out[i].slot = s
Occurrences(q, s) == Cardinality({i \in 1 .. Len(q) : q[i] = s})

\* C2 as stated: a lift of the finger in slot s followed at once by a sync
\* frame sends exactly one FingerUp for s and no FingerUpdate for s.
C2_Original ==
    [][(IsSome(tp_lifted) /\ SynStep) =>
          /\ CountUps(tp_out', Unwrap(tp_lifted)) = 1
          /\ ~HasUpdate(tp_out', Unwrap(tp_lifted))]_vars

\* what a flush sends for a just lifted slot s, given the lifts queued
LiftFlushed(s, queue, out) ==
    /\ ~HasUpdate(out, s)
    /\ CountUps(out, s) = Occurrences(queue, s)
    /\ CountUps(out, s) >= 1
    /\ (Occurrences(queue, s) = 1 => CountUps(out, s) = 1)

\* C2 amended: a lift of the finger in slot s followed at once by a sync frame
\* sends no FingerUpdate for s and one FingerUp for s per lift of s queued
\* since the previous sync frame, so exactly one when s was lifted once.
C2_LiftThenSync ==
    [][(IsSome(tp_lifted) /\ SynStep) =>
          LiftFlushed(Unwrap(tp_lifted), tp.pending_finger_up, tp_out')]_vars

\* C2 witness: the sync frame right after a lift of slot 1 has been flushed,
\* sending one FingerUp for slot 1 and an update of another slot.
C2_Witness ==
    /\ tp_ev = SynEv
    /\ tp_lifted = None
    /\ CountUps(tp_out, 1) = 1
    /\ HasUpdate(tp_out, 0)
    /\ IsNone(tp.slots[1])

---------------------------------------------------------------------------
(* Claims on the serial decoder                                            *)

\* (hi << 7) | lo in arithmetic: the sum, less the bit both operands hold
Joined(hi, lo) == hi * 128 + lo - (IF lo >= 128 /\ hi % 2 = 1 THEN 128 ELSE 0)

\* C3: after the header 0xFF, the next three bytes send nothing and advance
\* the phase by one each; the fifth byte of the frame sends exactly one Touch
\* with y = (yh<<7)|yl, x = (xh<<7)|xl and released = ~is_touching, where
\* is_touching is unchanged by the frame, and the decoder waits for a header
\* again. [0xFF, 0x02, 0x10, 0x01, 0x20] gives y = 272, x = 160.
C3_SimpleFrame ==
    (Len(ser_rx) >= 1 /\ ser_rx[1] = 255) =>
        /\ dec.is_touching = ser_touch0
        /\ Len(ser_rx) <= 5
        /\ Len(ser_rx) < 5 => (ser_out = None /\ dec.state = Len(ser_rx))
        /\ Len(ser_rx) = 5 =>
            /\ dec.state = 0
            /\ ser_out = Some([type |-> "Touch",
                               x |-> Joined(ser_rx[4], ser_rx[5]),
                               y |-> Joined(ser_rx[2], ser_rx[3]),
                               released |-> ~ser_touch0])
        /\ ser_rx = <<255, 2, 16, 1, 32>> =>
            (Unwrap(ser_out).y = 272 /\ Unwrap(ser_out).x = 160)

\* C3 witness: the documented frame has been fed while touching.
C3_Witness ==
    /\ ser_rx = <<255, 2, 16, 1, 32>>
    /\ ser_touch0
    /\ IsSome(ser_out)

\* C4: 0xBF fed while waiting for a header toggles is_touching once (no later
\* byte of the frame toggles it again) and starts a frame; the Touch of that
\* frame has released = ~(the toggled is_touching).
C4_ToggleFrame ==
    (Len(ser_rx) >= 1 /\ ser_rx[1] = 191) =>
        /\ dec.is_touching = ~ser_touch0
        /\ Len(ser_rx) <= 5
        /\ Len(ser_rx) < 5 => (ser_out = None /\ dec.state = Len(ser_rx))
        /\ Len(ser_rx) = 5 =>
            /\ dec.state = 0
            /\ IsSome(ser_out)
            /\ Unwrap(ser_out).released = ~dec.is_touching
            /\ Unwrap(ser_out).released = ser_touch0

\* C4 witness: a frame opened by 0xBF and holding another 0xBF as data is
\* complete, and it toggled is_touching from true to false.
C4_Witness ==
    /\ Len(ser_rx) = 5
    /\ ser_rx[1] = 191
    /\ ser_rx[3] = 191
    /\ ser_touch0
    /\ IsSome(ser_out)
    /\ Unwrap(ser_out).released

\* the step feeds a byte that is no header to a decoder waiting for one
NoiseStep ==
    /\ ser_tick' # ser_tick
    /\ dec.state = 0
    /\ ser_rx'[1] \notin HeaderBytes

\* C5: while waiting for a header, a byte other than 0xFF and 0xBF sends no
\* event and changes no field of the decoder.
C5_NoiseDiscarded == [][NoiseStep => (dec' = dec /\ ser_out' = None)]_vars

\* C5 witness: a byte that is no header was fed to a decoder that waits for a
\* header after a completed frame, holding the frame's fields.
C5_Witness ==
    /\ dec.state = 0
    /\ Len(ser_rx) = 1
    /\ ser_rx[1] \notin HeaderBytes
    /\ dec.is_touching
    /\ dec.y_hi = 2 /\ dec.y_lo = 16 /\ dec.x_hi = 1
    /\ ser_out = None

---------------------------------------------------------------------------
(* Claims on the device registry                                           *)

\* the listener threads of a path that have not ended
ListenersOf(path) == {t \in Tids : threads[t].pc # "none" /\ threads[t].path = path}

\* C6: no device path ever has two listener threads at once; the monitor
\* spawns (and the first loop spawns) a listener only for a path that is not in
\* the ActiveDeviceSet, so no path is registered twice.
C6_NoDoubleListener ==
    /\ \A p \in Paths : Cardinality(ListenersOf(p)) <= 1
    /\ scan_pc = "spawn" => Head(scan_devs).path \notin active
    /\ (main_pc = "spawning" /\ main_devs # <<>>) => Head(main_devs).path \notin active

\* C6 witness: after the trackpad's listener has ended and the device is back,
\* the monitor is about to spawn a new listener for its path while a listener
\* of the other path runs.
C6_Witness ==
    /\ main_pc = "ok"
    /\ "/dev/input/event0" \in ended
    /\ scan_pc = "spawn"
    /\ Head(scan_devs).path = "/dev/input/event0"
    /\ ListenersOf("/dev/input/event1") # {}
    /\ node["/dev/input/event0"] = "ok"

\* the step is one of the monitor thread
MonitorStep == scan_pc # "off" /\ (scan_pc' # scan_pc \/ Len(scan_devs') # Len(scan_devs))

\* the monitor asks the set for the head of its scan, which is not a member
FindsNew(path) ==
    scan_pc = "check" /\ Head(scan_devs).path = path /\ path \notin active

\* C7: the monitor never removes a path from the ActiveDeviceSet; a scan that
\* comes to an enumerated path which is not in the set goes on to insert it
\* and spawn its listener; and with the monitor scheduled fairly, a path that
\* is out of the set is in it again later unless its device stops being
\* present and openable.
C7_Rediscovery ==
    /\ [][MonitorStep => active \subseteq active']_vars
    /\ [][\A p \in Paths : (FindsNew(p) /\ MonitorStep) =>
            (scan_pc' = "spawn" /\ Head(scan_devs').path = p)]_vars
    /\ [][\A p \in Paths : (scan_pc = "spawn" /\ Head(scan_devs).path = p /\ MonitorStep) =>
            (p \in active' /\ Cardinality(ListenersOf(p)') = Cardinality(ListenersOf(p)) + 1)]_vars
    /\ \A p \in Paths :
          (scan_pc \notin {"off", "panic"} /\ p \notin active)
              ~> ((p \in active /\ ListenersOf(p) # {}) \/ node[p] # "ok")

\* C7 witness: after its listener ended on a read error and removed the path,
\* the trackpad is listened to again: the monitor has just re-inserted the path
\* and its new listener is in its stagger sleep.
C7_Witness ==
    /\ main_pc = "ok"
    /\ "/dev/input/event0" \in ended
    /\ scan_pc \in {"sleep", "check"}
    /\ "/dev/input/event0" \in active
    /\ \E t \in Tids : threads[t].pc = "sleep" /\ threads[t].path = "/dev/input/event0"
                         /\ threads[t].dev_ok

\* C8 as stated: a path is in the ActiveDeviceSet exactly when one listener
\* thread is responsible for it.
C8_Original == \A p \in Paths : (p \in active) <=> (Cardinality(ListenersOf(p)) = 1)

\* the thread of slot t got a read error in this step
ReadErrorStep(t) == threads[t].pc = "fetch" /\ threads'[t].pc = "remove"

\* the errors the claim calls a disconnect: not-found, the generic class, ENODEV
Disconnect(e) == e.kind \in {"NotFound", "Other"} \/ e.raw = <<19>>

\* C9: a read error of any kind makes the listener leave its read loop: it
\* logs the error exactly when it is no disconnect, then removes its own path
\* and no other from the ActiveDeviceSet and ends, without another read.
C9_ReadError ==
    [][\A t \in Tids :
        /\ ReadErrorStep(t) =>
            /\ IsSome(last_err')
            /\ (log' # {}) <=> ~Disconnect(Unwrap(last_err'))
            /\ log' \subseteq {<<"Error fetching events from device", threads[t].path>>}
            /\ active' = active
        /\ threads[t].pc = "remove" =>
            /\ threads'[t].pc \in {"remove", "none"}
            /\ threads'[t].pc = "none" =>
                 (active' = active \ {threads[t].path} /\ log' = {})]_vars

\* C9 witness: a listener ended on ENODEV, silently, and removed its path
\* while the other path stays registered with its listener.
C9_Witness ==
    /\ main_pc = "ok"
    /\ "/dev/input/event1" \in ended
    /\ last_err = None /\ log = {}
    /\ "/dev/input/event1" \notin active
    /\ ListenersOf("/dev/input/event1") = {}
    /\ "/dev/input/event0" \in active
    /\ ListenersOf("/dev/input/event0") # {}
    /\ node["/dev/input/event1"] = "absent"
    /\ scan_pc = "sleep"

\* C10 as stated: startup ends fatally only by returning the error of an
\* empty first enumeration, with nothing spawned; nothing else is fatal.
C10_Original ==
    /\ main_pc # "panic"
    /\ main_pc = "err" =>
        /\ main_devs = <<>>
        /\ active = {}
        /\ \A t \in Tids : threads[t].pc = "none"
        /\ scan_pc = "off"
        /\ ~ser_reader
    /\ main_pc \in {"serial", "ok"} => scan_pc # "off"

---------------------------------------------------------------------------
(* Claims on the calibration engine                                        *)

CaptureSteps == {"TopLeft", "TopRight", "BottomRight", "BottomLeft"}

HoldCleared(c) ==
    /\ IsNone(c.touch_start_time)
    /\ IsNone(c.touch_start_pos)
    /\ c.hold_duration_ms = 0
    /\ c.touch_samples = <<>>

\* C11: during corner capture, a release that reaches record_touch while the
\* accumulated hold is below REQUIRED_HOLD_MS stores no point (count and
\* corners unchanged), leaves the step alone and clears the hold state.
C11_ShortHoldDiscarded ==
    [][cal_ev' = "short" =>
          /\ cal.step \in CaptureSteps
          /\ cal.hold_duration_ms < REQUIRED_HOLD_MS
          /\ cal'.count = cal.count
          /\ cal'.pts = cal.pts
          /\ cal'.step = cal.step
          /\ HoldCleared(cal')
          /\ ~cal'.is_touching]_vars

\* a hold at the third corner was released too early: two corners stay stored
C11_Witness ==
    /\ cal_ev = "short"
    /\ cal.step = "BottomRight"
    /\ cal.count = 2
    /\ HoldCleared(cal)

\* the squared distance of a and b is below k, for k <= MIN_CORNER_DIST2, in
\* unbounded arithmetic: both differences are then below 100
SquaredDistanceBelow(a, b, k) ==
    /\ Abs(a.x - b.x) < 100
    /\ Abs(a.y - b.y) < 100
    /\ (a.x - b.x) * (a.x - b.x) + (a.y - b.y) * (a.y - b.y) < k

\* the six pairs of corners, the two diagonals last
CornerPairs == {<<0, 1>>, <<1, 2>>, <<2, 3>>, <<3, 0>>, <<0, 2>>, <<1, 3>>}

\* the four rejection conditions of the specification on the corners pts
Rejected(pts) ==
    \/ MaxOf({pts[i].x : i \in 0 .. 3}) - MinOf({pts[i].x : i \in 0 .. 3}) < MIN_SPAN_X
    \/ MaxOf({pts[i].y : i \in 0 .. 3}) - MinOf({pts[i].y : i \in 0 .. 3}) < MIN_SPAN_Y
    \/ \E p \in CornerPairs : SquaredDistanceBelow(pts[p[1]], pts[p[2]], MIN_CORNER_DIST2)
    \/ SquaredDistanceBelow(pts[0], pts[2], MIN_DIAGONAL2)
    \/ SquaredDistanceBelow(pts[1], pts[3], MIN_DIAGONAL2)

\* the values map reads
Mapping(c) ==
    <<c.min_x, c.max_x, c.min_y, c.max_y, c.invert_x, c.invert_y, c.scale_x, c.scale_y>>

\* C12: when the fourth corner is captured the session ends in Done if and
\* only if none of the four rejection conditions holds; otherwise it restarts
\* at TopLeft with count 0, an error message and the stored mapping unchanged.
C12_Original ==
    [][(cal_ev' = "long" /\ cal.step = "BottomLeft") =>
          IF Rejected(cal'.pts)
          THEN /\ cal'.step = "TopLeft"
               /\ cal'.count = 0
               /\ IsSome(cal'.error)
               /\ Mapping(cal') = Mapping(cal)
          ELSE /\ cal'.step = "Done"
               /\ ~cal_panicked']_vars

\* the squared length of the segment ab, for points less than 100 apart
SmallDist2(a, b) == (a.x - b.x) * (a.x - b.x) + (a.y - b.y) * (a.y - b.y)

\* the corners pts form a square whose diagonals are shorter than MIN_DIAGONAL2
SmallSquare(pts) ==
    /\ \A p \in CornerPairs :
          Abs(pts[p[1]].x - pts[p[2]].x) < 100 /\ Abs(pts[p[1]].y - pts[p[2]].y) < 100
    /\ SquaredDistanceBelow(pts[0], pts[2], MIN_DIAGONAL2)
    /\ SquaredDistanceBelow(pts[1], pts[3], MIN_DIAGONAL2)
    /\ SmallDist2(pts[0], pts[2]) = SmallDist2(pts[1], pts[3])
    /\ \A p \in {<<1, 2>>, <<2, 3>>, <<3, 0>>} :
          SmallDist2(pts[p[1]], pts[p[2]]) = SmallDist2(pts[0], pts[1])

\* the step of a finalize that accepts: the fourth corner takes the step to Done
FinalizeAccepts ==
    cal_ev' = "long" /\ cal.step = "BottomLeft" /\ cal'.step = "Done" /\ ~cal_panicked'

\* C13: finalize rejects four corners that form a square smaller than
\* MIN_DIAGONAL2; an error message that is set stays set through every touch,
\* tick and corner capture until a finalize accepts, and that finalize clears it.
C13_ErrorUntilSuccess ==
    [][/\ (cal_ev' = "long" /\ cal.step = "BottomLeft" /\ SmallSquare(cal'.pts)) =>
            (IsSome(cal'.error) /\ cal'.step = "TopLeft" /\ cal'.count = 0)
       /\ (IsSome(cal.error) /\ cal_ev' # "recalibrate") =>
            (IsSome(cal'.error) \/ FinalizeAccepts)
       /\ FinalizeAccepts => IsNone(cal'.error)]_vars

\* a square of side 1 was captured and rejected, and the message is on display
C13_Witness ==
    /\ cal_ev = "long"
    /\ SmallSquare(cal.pts)
    /\ cal.pts[0] # cal.pts[2]
    /\ IsSome(cal.error)
    /\ cal.step = "TopLeft"
    /\ cal.count = 0

\* a finalize accepted the corners and the test phase runs
Calibrated == cal.step = "Done" /\ ~cal_panicked

\* C14: in the Done state map(min_x, min_y) is (0, 0) when no axis is
\* inverted, (target, 0) when only X is, (0, target) when only Y is and
\* (target, target) when both are, for every accepted calibration.
C14_MinMapsToOrigin ==
    Calibrated =>
        map(cal, cal.min_x, cal.min_y) =
            Pt(IF cal.invert_x THEN CALIBRATED_MAX_X ELSE 0,
               IF cal.invert_y THEN CALIBRATED_MAX_Y ELSE 0)

\* a panel whose minimum is (300, 200), calibrated with both axes inverted,
\* was touched at its minimum, which landed on (target, target)
C14_Witness ==
    /\ Calibrated
    /\ cal.invert_x /\ cal.invert_y
    /\ cal.min_x = 300 /\ cal.min_y = 200
    /\ last_position = Some(Pt(CALIBRATED_MAX_X, CALIBRATED_MAX_Y))

\* raw points given to map: those of the panel and some beyond its corners
RawProbes == PanelPoints(panel) \cup {Pt(0, 0), Pt(500, 1000), Pt(1000, 40), Pt(U16_MAX, U16_MAX)}

Remap(c, q) == map(c, map(c, q.x, q.y).x, map(c, q.x, q.y).y)

\* C15 as the specification states it: once a touch was mapped in the Done
\* state, mapping the mapped position again gives the same position.
C15_Original ==
    (Calibrated /\ IsSome(last_position)) =>
        map(cal, Unwrap(last_position).x, Unwrap(last_position).y) = Unwrap(last_position)

\* the raw window of the calibration is the target range itself, not reflected
IdentityWindow(c) ==
    /\ c.min_x = 0 /\ c.max_x = CALIBRATED_MAX_X /\ ~c.invert_x
    /\ c.min_y = 0 /\ c.max_y = CALIBRATED_MAX_Y /\ ~c.invert_y

\* C15, amended: mapping a mapped position again gives the same position
\* when the accepted calibration has minimum 0, span target and no inversion
\* on both axes.
C15_IdempotentOnIdentityWindow ==
    (Calibrated /\ IdentityWindow(cal)) =>
        \A q \in RawProbes : Remap(cal, q) = map(cal, q.x, q.y)

\* the panel with raw range 0..999 is calibrated in reading order and touched
\* at its far corner
C15_Witness ==
    /\ Calibrated
    /\ IdentityWindow(cal)
    /\ last_position = Some(Pt(CALIBRATED_MAX_X, CALIBRATED_MAX_Y))

\* raw values of one axis around the window min .. max, within the u16 range
AxisProbes(min, max) ==
    {v \in {0, min - 1, min, min + 1, (min + max) \div 2, max - 1, max, max + 1,
            max + 1000, U16_MAX} : 0 <= v /\ v <= U16_MAX}

\* the mapped values vs of the raw values of one axis are in range, pinned
\* outside the window min .. max and monotone in the raw value
AxisInRange(vs, min, max, invert, target) ==
    /\ \A v \in DOMAIN vs : 0 <= vs[v] /\ vs[v] <= target
    /\ \A v \in DOMAIN vs : v < min => vs[v] = (IF invert THEN target ELSE 0)
    /\ \A v \in DOMAIN vs : v > max => vs[v] = (IF invert THEN 0 ELSE target)
    /\ \A v, w \in DOMAIN vs :
          v <= w => (IF invert THEN vs[v] >= vs[w] ELSE vs[v] <= vs[w])

\* C16: for an accepted calibration, map returns coordinates in 0 .. target;
\* raw values below the recorded minimum map to 0 (target if the axis is
\* inverted), values above the recorded maximum map to target (0 if
\* inverted), and the result is monotone in the raw value on each axis.
C16_MapInRange ==
    Calibrated =>
        /\ AxisInRange([v \in AxisProbes(cal.min_x, cal.max_x) |-> map(cal, v, 0).x],
                       cal.min_x, cal.max_x, cal.invert_x, CALIBRATED_MAX_X)
        /\ AxisInRange([v \in AxisProbes(cal.min_y, cal.max_y) |-> map(cal, 0, v).y],
                       cal.min_y, cal.max_y, cal.invert_y, CALIBRATED_MAX_Y)
        /\ \A q \in RawProbes : map_raw(cal, q.x, q.y) = map(cal, q.x, q.y)

\* a window that starts above 0 with X inverted: raw values on either side of
\* it are pinned to the ends of the range, and a touch at the far raw corner
\* was mapped
C16_Witness ==
    /\ Calibrated
    /\ cal.min_x = 300 /\ cal.invert_x /\ ~cal.invert_y
    /\ map(cal, cal.min_x - 1, 0).x = CALIBRATED_MAX_X
    /\ map(cal, cal.max_x + 1, 0).x = 0
    /\ last_position = Some(Pt(0, CALIBRATED_MAX_Y))

\* the position of a step in SelectDevice -> TopLeft -> ... -> Done
StepIndex(step) == CHOOSE i \in 1 .. Len(CalibrationSteps) : CalibrationSteps[i] = step

\* the corners captured in the attempt under way, as the step tells
CornersBefore(step) == IF step = "DeviceSelection" THEN 0 ELSE StepIndex(step) - 2

\* C17: the step changes only one place forward along DeviceSelection ->
\* TopLeft -> TopRight -> BottomRight -> BottomLeft -> Done, back to TopLeft
\* when the validation of the fourth corner fails, or by the recalibration
\* reset; each forward step in capture stores one corner, so Done is reached
\* only with the four corners of one attempt captured in that order.
C17_StepChain ==
    [][/\ cal'.step # cal.step =>
            \/ /\ StepIndex(cal'.step) = StepIndex(cal.step) + 1
               /\ cal.step = "DeviceSelection" \/ cal_ev' = "long"
            \/ /\ cal.step = "BottomLeft" /\ cal'.step = "TopLeft"
               /\ cal_ev' = "long" /\ IsSome(cal'.error)
            \/ cal_ev' = "recalibrate" /\ cal' = Calibration_new
       /\ cal'.count = CornersBefore(cal'.step)
       /\ (cal'.step \in CaptureSteps \cup {"Done"} /\ cal'.count > cal.count) =>
            /\ cal'.count = cal.count + 1
            /\ \A i \in 0 .. 3 : i # cal.count => cal'.pts[i] = cal.pts[i]]_vars

\* the four corners of the unit panel were captured in order and accepted
C17_Witness ==
    /\ Calibrated
    /\ cal.count = 4
    /\ cal.pts = [i \in 0 .. 3 |-> <<Pt(0, 0), Pt(999, 0), Pt(999, 999), Pt(0, 999)>>[i + 1]]
    /\ cal_ev = "long"

\* C18: after an accepting finalize invert_x is true exactly when the
\* top-right X is below the top-left X, invert_y exactly when the mean Y of
\* the two bottom corners is below the mean Y of the two top corners, min and
\* max are the bounds over the four corners, and each scale is
\* target / max(span, 1).
C18_Original ==
    Calibrated =>
        /\ cal.invert_x = (cal.pts[1].x < cal.pts[0].x)
        /\ cal.invert_y = (cal.pts[3].y + cal.pts[2].y < cal.pts[0].y + cal.pts[1].y)
        /\ cal.min_x = MinOf({cal.pts[i].x : i \in 0 .. 3})
        /\ cal.max_x = MaxOf({cal.pts[i].x : i \in 0 .. 3})
        /\ cal.min_y = MinOf({cal.pts[i].y : i \in 0 .. 3})
        /\ cal.max_y = MaxOf({cal.pts[i].y : i \in 0 .. 3})
        /\ cal.scale_x = F32Div(CALIBRATED_MAX_X, Max(cal.max_x - cal.min_x, 1))
        /\ cal.scale_y = F32Div(CALIBRATED_MAX_Y, Max(cal.max_y - cal.min_y, 1))

---------------------------------------------------------------------------
(* Claims on the plain listener                                            *)

IsKeyOut(e) == e.type = "Key"

\* the listener sent a Touch that is not a release for its last raw event
SentTouchDown == \E i \in 1 .. Len(lst_out) : IsTouch(lst_out[i]) /\ ~lst_out[i].released

\* C19: the listener of a plain device sends at most one Touch per sync
\* frame, sends it at the sync-frame event and not at an absolute X or Y
\* event, and sends no Touch that is not a release for a coordinate change
\* while nothing touches.
C19_Original ==
    /\ lst_frame <= 1
    /\ lst_ev.type = "abs" => ~SentTouchDown
    /\ (lst_ev.type = "abs" /\ ~lst_down) => lst_out = <<>>

\* the keys that report a touch or the presence of a tool
TouchToolKeys == {"BTN_TOUCH", "BTN_TOOL_FINGER", "BTN_TOOL_PEN"}

\* C20: a raw key event gives a Key event only for value 1 (pressed), never
\* for 0 (released) or 2 (repeat), and a touch or tool-presence key gives no
\* Key event for any value.
C20_Original ==
    \A i \in 1 .. Len(lst_out) :
        IsKeyOut(lst_out[i]) =>
            /\ lst_ev.type = "key"
            /\ lst_ev.value = 1
            /\ lst_ev.code \notin TouchToolKeys

---------------------------------------------------------------------------
(* Further claims on the aggregator                                        *)

\* nothing is queued in the handler h and no slot has a pending update
NothingPending(h) ==
    /\ IsNone(h.pending_click)
    /\ IsNone(h.pending_finger_count)
    /\ h.pending_finger_up = <<>>
    /\ \A s \in 0 .. NumSlots - 1 : IsSome(h.slots[s]) => ~Unwrap(h.slots[s]).pending

\* C30: after every flush no slot is marked dirty and pending_click,
\* pending_finger_count and pending_finger_up are empty, so a sync frame that
\* directly follows a sync frame sends no event at all.
C30_FlushLeavesNothing ==
    [][tp_ev' = SynEv =>
          /\ NothingPending(tp')
          /\ tp_ev = SynEv => tp_out' = <<>>]_vars

\* a finger with a position sits in slot 0, its update was flushed before, and
\* the sync frame just handled sent nothing
C30_Witness ==
    /\ tp_ev = SynEv
    /\ tp_out = <<>>
    /\ IsSome(tp.slots[0])
    /\ IsSome(Unwrap(tp.slots[0]).x)
    /\ NothingPending(tp)

---------------------------------------------------------------------------
(* Further claims on the calibration engine                                *)

\* C24: a Tick changes nothing of the calibration but the elapsed hold
\* duration, and that only while a touch is active with a recorded start
\* time: step, count, corners, samples, start position, start time, error
\* and selected device stay as they were.
C24_TickOnlyHold ==
    [][cal_ev' = "tick" =>
          /\ [cal' EXCEPT !.hold_duration_ms = cal.hold_duration_ms] = cal
          /\ last_position' = last_position
          /\ cal'.hold_duration_ms # cal.hold_duration_ms =>
                /\ cal.is_touching
                /\ IsSome(cal.touch_start_time)
                /\ cal.step \in CaptureSteps]_vars

\* a Tick took the hold at the second corner to the required duration
C24_Witness ==
    /\ cal_ev = "tick"
    /\ cal.step = "TopRight"
    /\ cal.is_touching
    /\ cal.hold_duration_ms = REQUIRED_HOLD_MS
    /\ Len(cal.touch_samples) = 1

\* the positions map gives for the raw points of the panel
MappedPoints(c) == {map(c, q.x, q.y) : q \in PanelPoints(panel)}

\* C29: map is a function of the session and the raw point and changes no
\* field of the session; once the session is Done no Touch or Tick changes
\* step, corners, min/max, scale or inversion flags (nor any other field of
\* the calibration): only the recalibration key does.
C29_DoneIsFrozen ==
    [][(Calibrated /\ cal_ev' # "recalibrate") =>
          /\ cal' = cal
          /\ ~cal_panicked'
          /\ IsSome(last_position') => Unwrap(last_position') \in MappedPoints(cal)]_vars

\* touches were mapped in the Done state and a Tick followed
C29_Witness ==
    /\ Calibrated
    /\ cal_ev = "tick"
    /\ IsSome(last_position)
    /\ Unwrap(last_position) \in MappedPoints(cal)
    /\ cal.min_x = 300

\* C22: once a device is selected, a Touch from any other source changes
\* nothing of the calibration or of the last position, in corner capture and
\* in Done alike.
C22_Original ==
    [][cal_ev' \in {"foreign", "unsourced"} =>
          /\ cal' = cal
          /\ last_position' = last_position]_vars

(***************************************************************************)
(* Claims on holds of several samples                                      *)
(***************************************************************************)

\* a press reaches record_touch while a hold is under way
PressInHold ==
    /\ cal_ev' = "other"
    /\ cal.step \in CaptureSteps
    /\ IsSome(cal.touch_start_pos)
    /\ cal'.touch_samples # <<>>
    /\ cal'.touch_samples # cal.touch_samples

\* the axis maxima the panel reports
ReportedMaxima == {PanelMax(panel), PanelMaxY(panel)} \ {None}

LargestReported == CHOOSE m \in ReportedMaxima : \A n \in ReportedMaxima : Unwrap(n) <= Unwrap(m)

\* a press during a hold: a sample further than tol from the start of the
\* hold, on either axis, starts the hold again at that sample and at the
\* present time; any other sample joins the samples of the hold
PressFollows(tol) ==
    LET q == cal'.touch_samples[Len(cal'.touch_samples)]
        start == Unwrap(cal.touch_start_pos)
    IN  IF Abs(q.x - start.x) > tol \/ Abs(q.y - start.y) > tol
        THEN /\ cal' = [cal EXCEPT !.is_touching = TRUE,
                                   !.touch_start_time = cal'.touch_start_time,
                                   !.touch_start_pos = Some(q),
                                   !.hold_duration_ms = 0,
                                   !.touch_samples = <<q>>]
             /\ cal'.touch_start_time
                    = Some(Unwrap(cal.touch_start_time) + cal.hold_duration_ms)
        ELSE cal' = [cal EXCEPT !.is_touching = TRUE,
                                !.touch_samples = Append(cal.touch_samples, q)]

\* C25 as stated: the tolerance is 2.5% of the reported maximum, and the
\* floor 100 when no maximum is reported
C25_Original ==
    [][PressInHold =>
        PressFollows(IF ReportedMaxima = {} THEN MIN_TOLERANCE
                     ELSE (25 * Unwrap(LargestReported)) \div 1000)]_vars

\* C25, amended: a press during a hold restarts the hold when the sample
\* lies further from the start than the tolerance on either axis, and joins
\* the hold otherwise; the tolerance is 2.5% of the larger reported axis
\* maximum, rounded down, and never less than the floor 100
C25_ToleranceWithFloor ==
    [][PressInHold =>
        PressFollows(Max(IF ReportedMaxima = {} THEN 0
                         ELSE (25 * Unwrap(LargestReported)) \div 1000,
                         MIN_TOLERANCE))]_vars

\* a hold restarted at (10, 10) half a second late, joined by a sample 102 away
C25_Witness ==
    /\ panel = "jitter4k"
    /\ cal_ev = "other"
    /\ cal.touch_start_time = Some(REQUIRED_HOLD_MS \div 2)
    /\ cal.touch_start_pos = Some(Pt(10, 10))
    /\ cal.touch_samples = <<Pt(10, 10), Pt(112, 10)>>
\* the coordinates of the samples of the hold of c, per axis
SampleXs(c) == {c.touch_samples[i].x : i \in 1 .. Len(c.touch_samples)}

SampleYs(c) == {c.touch_samples[i].y : i \in 1 .. Len(c.touch_samples)}

\* the corner stored by a release after a long hold is the integer mean of
\* the samples of the hold, per axis, and lies between the least and the
\* largest of them; the hold state is cleared
MeanCaptured ==
    LET n == Len(cal.touch_samples)
        corner == cal'.pts[cal.count]
    IN  /\ n > 0
        /\ n * corner.x <= SumX(cal.touch_samples)
        /\ SumX(cal.touch_samples) < n * (corner.x + 1)
        /\ n * corner.y <= SumY(cal.touch_samples)
        /\ SumY(cal.touch_samples) < n * (corner.y + 1)
        /\ \E lo, hi \in SampleXs(cal) : lo <= corner.x /\ corner.x <= hi
        /\ \E lo, hi \in SampleYs(cal) : lo <= corner.y /\ corner.y <= hi
        /\ \A i \in 0 .. 3 : i # cal.count => cal'.pts[i] = cal.pts[i]
        /\ HoldCleared(cal')

\* C26 as stated: every release after a long hold stores the mean, adds one
\* to the count and advances the step by one
C26_Original ==
    [][cal_ev' = "long" =>
        /\ MeanCaptured
        /\ cal'.count = cal.count + 1
        /\ StepIndex(cal'.step) = StepIndex(cal.step) + 1]_vars

\* C26, amended: a release after a long hold stores the integer mean of the
\* samples of the hold as the corner and clears the hold state; the count
\* grows by one and the step advances by one, except at the fourth corner
\* when the four corners are rejected: then the step is TopLeft again, the
\* count is 0 and the error is set
C26_MeanThenAdvanceOrRestart ==
    [][cal_ev' = "long" =>
        /\ MeanCaptured
        /\ IF cal.step = "BottomLeft" /\ IsSome(cal'.error)
           THEN cal'.step = "TopLeft" /\ cal'.count = 0
           ELSE /\ cal'.count = cal.count + 1
                /\ StepIndex(cal'.step) = StepIndex(cal.step) + 1]_vars

\* the first corner is the mean of (10, 10), (13, 21) and (110, 10)
C26_Witness ==
    /\ cal_ev = "long"
    /\ panel = "jitter"
    /\ cal.step = "TopRight"
    /\ cal.count = 1
    /\ cal.pts[0] = Pt(44, 13)
(***************************************************************************)
(* Claims on the listener of a trackpad                                    *)
(***************************************************************************)

\* C27: the listener of a device named as the multitouch trackpad hands
\* every raw event to the aggregator, keeps its own coordinate pair as it
\* was, and sends Trackpad events only: what the aggregator sent for that
\* event, and no Key, Mouse or Touch event
C27_TrackpadForwardsAll ==
    [][(lst_name = DeviceName("/dev/input/event0") /\ lst_n' # lst_n) =>
        /\ tp_ev' = lst_ev'
        /\ tp_n' = tp_n + 1
        /\ tp' = handle_event(tp, lst_ev').h
        /\ Len(lst_out') = Len(tp_out')
        /\ \A i \in 1 .. Len(lst_out') :
              lst_out'[i].type = "Trackpad" /\ lst_out'[i].event = tp_out'[i]
        /\ touchpad_x' = touchpad_x /\ touchpad_y' = touchpad_y]_vars

\* the trackpad's listener took BTN_TOOL_FINGER and a sync, and sent the
\* finger count as a Trackpad event
C27_Witness ==
    /\ lst_name = DeviceName("/dev/input/event0")
    /\ lst_ev = SynEv
    /\ lst_out = <<TrackpadOut([type |-> "FingerCount", count |-> 1])>>
    /\ touchpad_x = 0
    /\ tp_n = 2
(***************************************************************************)
(* Claims on the event stream and the serial reader                        *)
(***************************************************************************)

\* the events of producer p among seq, in the order of seq
RECURSIVE FromProducer(_, _)
FromProducer(seq, p) ==
    IF seq = <<>> THEN <<>>
    ELSE IF Head(seq).src = p THEN <<Head(seq)>> \o FromProducer(Tail(seq), p)
    ELSE FromProducer(Tail(seq), p)

\* C21: for each producer, the events the consumer has received followed by
\* those still in the channel are exactly the events the producer has sent,
\* in the order it sent them: none is dropped, duplicated or overtaken,
\* whatever the consumer has left unread
C21_PerProducerOrder ==
    \A p \in Producers : FromProducer(got \o chan, p) = sent[p]

\* the consumer has received events of both producers interleaved, and is
\* behind: an event is still in the channel
C21_Witness ==
    /\ got = <<Msg("serial", "Touch", 1), Msg("listener", "Key", 1), Msg("serial", "Touch", 2)>>
    /\ chan = <<Msg("listener", "Touch", 2)>>

\* the reader thread is in its loop
ReaderAlive == rd_pc \in {"open", "delay", "read", "nap"}

\* C23: the serial reader thread, once spawned, stays in its loop; a failed
\* open is counted, logged when the count is a multiple of ten, and followed
\* by the delay and then another open; a read timeout keeps the port open
\* and logs nothing; the port is left only by a read error, which leads to
\* another open; the delay and the short sleep always end
C23_ReaderNeverGivesUp ==
    /\ [][/\ ReaderAlive => ReaderAlive'
          /\ (rd_pc = "open" /\ rd_pc' # "open") =>
                \/ rd_pc' = "read" /\ rd_ev' = "opened" /\ attempts' = attempts
                \/ /\ rd_pc' = "delay" /\ rd_ev' = "open_failed"
                   /\ attempts' = attempts + 1
                   /\ (rd_log' # {}) <=> (attempts' % 10 = 0)
          /\ (rd_pc = "delay" /\ rd_pc' # "delay") => rd_pc' = "open"
          /\ (rd_pc = "read" /\ rd_ev' = "timeout") => (rd_pc' = "read" /\ rd_log' = {})
          /\ (rd_pc = "read" /\ rd_pc' \notin {"read", "nap"}) =>
                (rd_pc' = "open" /\ rd_ev' = "error")
          /\ (rd_pc = "nap" /\ rd_pc' # "nap") => rd_pc' = "read"]_vars
    /\ (rd_pc = "delay") ~> (rd_pc = "open")
    /\ (rd_pc = "nap") ~> (rd_pc = "read")
    /\ (rd_pc = "open") ~> (rd_pc \in {"read", "delay"})

\* the tenth failed open has just been logged, and the delay runs
C23_Witness ==
    /\ rd_pc = "delay"
    /\ attempts = 10
    /\ rd_log # {}
    /\ rd_ev = "open_failed"

\* C28 as stated: on a computer model without the serial touch panel no
\* reader thread runs, no event comes from the serial port, and startup
\* succeeds
C28_Original ==
    ~has_serial_touchscreen(computer_model) =>
        /\ ~ReaderAlive
        /\ sent["serial"] = <<>>
        /\ st_main # "panic"
(***************************************************************************)
(* Claims on the memoized computer model                                   *)
(***************************************************************************)

\* C35 as stated: no call of get_computer_model panics, whichever threads
\* call it while the cache is empty
C35_Original == st_main # "panic" /\ l_pc # "dead"

(***************************************************************************)
(* Further claims on the slots of the aggregator                           *)
(***************************************************************************)

\* C33 as stated: the aggregator never indexes its slots out of bounds,
\* whatever slot the hardware selects
C33_Original == ~tp_panicked

\* the field of a finger that an axis code reports
AxisFieldName(code) ==
    CASE code = "ABS_MT_POSITION_X" -> "x"
      [] code = "ABS_MT_POSITION_Y" -> "y"
      [] code = "ABS_MT_PRESSURE" -> "pressure"
      [] code = "ABS_MT_TOUCH_MAJOR" -> "major"
      [] OTHER -> "width"

\* the handler was given an axis event of a finger
AxisStep == tp_n' # tp_n /\ tp_ev'.type = "abs" /\ tp_ev'.code \in MtAxisCodes

\* a finger of h sits in the slot that is selected
FingerSelected(h) ==
    /\ IsSome(h.current_slot)
    /\ InBounds(Unwrap(h.current_slot))
    /\ IsSome(h.slots[Unwrap(h.current_slot).n])

\* what C31 says of an axis event: with a finger in the selected slot its
\* field and the dirty flag of that slot change and nothing else; without
\* one the handler stays as it was; nothing is sent either way
AxisEffect ==
    /\ tp_out' = <<>>
    /\ IF FingerSelected(tp)
       THEN tp' = [tp EXCEPT !.slots[Unwrap(tp.current_slot).n] =
                       Some([Unwrap(@) EXCEPT ![AxisFieldName(tp_ev'.code)] = Some(tp_ev'.value),
                                              !.pending = TRUE])]
       ELSE tp' = tp

\* C31 as stated: an axis event without a finger in the selected slot is
\* ignored, and the aggregator goes on
C31_Original == [][AxisStep => (AxisEffect /\ ~tp_panicked')]_vars

(***************************************************************************)
(* Further claims on the serial decoder                                    *)
(***************************************************************************)

\* the decoder was fed a byte inside a frame
FrameStep == ser_tick' # ser_tick /\ dec.state # 0

\* the byte fed last
LastByte == ser_rx'[Len(ser_rx')]

\* C40: the phase of the decoder is one of 0..4; inside a frame every byte,
\* the header bytes 0xFF and 0xBF too, advances the phase by one (from 4 to
\* 0), is stored as the coordinate byte of its phase and leaves is_touching
\* alone; a Touch is returned for the fifth byte of a frame and for no other
\* byte, and its x and y are at most 32767
C40_FixedFrames ==
    [][ser_tick' # ser_tick =>
        /\ dec'.state \in 0 .. 4
        /\ FrameStep =>
            /\ dec'.state = (dec.state + 1) % 5
            /\ dec'.is_touching = dec.is_touching
            /\ dec.state = 1 => dec'.y_hi = LastByte
            /\ dec.state = 2 => dec'.y_lo = LastByte
            /\ dec.state = 3 => dec'.x_hi = LastByte
            /\ Len(ser_rx') = dec.state + 1
        /\ IsSome(ser_out') <=> dec.state = 4
        /\ IsSome(ser_out') =>
            /\ Len(ser_rx') = 5
            /\ Unwrap(ser_out').x <= 32767
            /\ Unwrap(ser_out').y <= 32767]_vars

\* a frame whose four data bytes are header bytes: one release at the
\* largest x there is
C40_Witness ==
    /\ ser_rx = <<255, 191, 255, 255, 255>>
    /\ dec.state = 0
    /\ ~dec.is_touching
    /\ ser_out = Some([type |-> "Touch", x |-> 32767, y |-> 24575, released |-> TRUE])

(***************************************************************************)
(* Claims on recalibration and on the corners of a run                     *)
(***************************************************************************)

\* C32 as stated: the key T resets the session at every step
C32_Original ==
    [][cal_ev' \in {"recalibrate", "t_selecting"} =>
        (cal' = Calibration_new /\ last_position' = None)]_vars

\* C32, amended: the key T at any step after device selection leaves the
\* session equal to a new one; during device selection it changes nothing;
\* a rejected set of corners keeps the devices and the selection, sets the
\* error and returns to TopLeft with count 0
C32_ResetAfterSelection ==
    [][/\ cal_ev' = "recalibrate" => (cal' = Calibration_new /\ last_position' = None)
       /\ cal_ev' = "t_selecting" => (cal' = cal /\ last_position' = last_position)
       /\ (cal_ev' = "long" /\ cal.step = "BottomLeft" /\ cal'.step # "Done") =>
            /\ cal'.step = "TopLeft"
            /\ cal'.count = 0
            /\ IsSome(cal'.error)
            /\ cal'.selected_device_path = cal.selected_device_path
            /\ cal'.selected_device_info = cal.selected_device_info
            /\ cal'.available_devices = cal.available_devices]_vars

\* the key T was pressed with a panel selected, and the session is new
C32_Witness ==
    /\ cal_ev = "recalibrate"
    /\ panel = "offset"
    /\ cal = Calibration_new
    /\ last_position = None

\* C36: the count of corners always matches the step (0 at DeviceSelection
\* and TopLeft, 1 at TopRight, 2 at BottomRight, 3 at BottomLeft, 4 at
\* Done), so a capture writes inside the four corners, at the position of
\* the step it ends, and leaves the other corners as they were
C36_CountMatchesStep ==
    /\ [](cal.count = CornersBefore(cal.step))
    /\ [][cal_ev' = "long" =>
            /\ cal.count \in 0 .. 3
            /\ cal.count = StepIndex(cal.step) - 2
            /\ \A i \in 0 .. 3 : i # cal.count => cal'.pts[i] = cal.pts[i]
            /\ cal'.pts[cal.count] =
                    Pt(SumX(cal.touch_samples) \div Len(cal.touch_samples),
                       SumY(cal.touch_samples) \div Len(cal.touch_samples))]_vars

\* three corners of the panel "offset" sit at their positions, the fourth is next
C36_Witness ==
    /\ panel = "offset"
    /\ cal_ev = "long"
    /\ cal.step = "BottomLeft"
    /\ cal.count = 3
    /\ cal.pts[0] = Pt(300, 200)
    /\ cal.pts[1] = Pt(1300, 501)
    /\ cal.pts[2] = Pt(1300, 350)

\* the messages finalize leaves when the diagonals are not what rejects
SpanOrPairMessages ==
    {Some("Calibration failed: X span too small"),
     Some("Calibration failed: Y span too small"),
     Some("Calibration failed: some samples too close together.")}

HoldStarts ==
    /\ IsSome(cal'.touch_start_time)
    /\ cal'.touch_start_time # cal.touch_start_time

\* C38: the hold duration tested at a release advances only when a Tick is
\* taken while a touch is down: a press that starts a hold, or starts it
\* again after a movement, leaves the duration at 0 and the start at the
\* reading of that press; only a Tick raises the duration, to its reading
\* less that start; and a release that finds the duration at 0 stores no
\* corner and changes no step. A Touch carries no time the screen reads
\* (record_touch binds its timestamp to _), so the times of press and release
\* do not enter.
C38_HoldAdvancesOnTicks ==
    [][/\ cal'.hold_duration_ms # cal.hold_duration_ms =>
            \/ cal'.hold_duration_ms = 0
            \/ /\ cal_ev' = "tick"
               /\ cal.is_touching
               /\ \E t \in TickReadings(cal) :
                      cal'.hold_duration_ms = t - Unwrap(cal.touch_start_time)
       /\ HoldStarts =>
            /\ cal'.hold_duration_ms = 0
            /\ cal'.touch_start_time = Some(PressReading(cal))
            /\ Len(cal'.touch_samples) = 1
       /\ (cal_ev' \in {"short", "long"} /\ cal.hold_duration_ms = 0) =>
            /\ cal_ev' = "short"
            /\ cal'.pts = cal.pts
            /\ cal'.count = cal.count
            /\ cal'.step = cal.step]_vars

\* a hold ran for half the required time, a movement started it again at
\* that reading, and no Tick came since
C38_Witness ==
    /\ panel = "jitter"
    /\ cal_ev = "other"
    /\ cal.is_touching
    /\ cal.touch_start_time = Some(REQUIRED_HOLD_MS \div 2)
    /\ cal.hold_duration_ms = 0
    /\ Len(cal.touch_samples) = 1

(***************************************************************************)
(* Claims on the selection of a device                                     *)
(***************************************************************************)

\* the candidate devices of the session
Candidates == cal.available_devices

\* C39: the candidate list holds at most one entry per path; it changes only
\* by one appended device during DeviceSelection, or by the reset of a
\* recalibration; the selection index is valid whenever the list is not
\* empty; the session leaves DeviceSelection only by the selection of an
\* entry of a non-empty list, at the highlighted index or at the index of a
\* digit, and the selected device stays an entry of the list; so a session
\* whose list is empty, as when no Touch names its device, is in
\* DeviceSelection.
C39_SelectionInvariants ==
    /\ [](\A i, j \in 1 .. Len(Candidates) :
            Candidates[i].path = Candidates[j].path => i = j)
    /\ [](Candidates # <<>> => cal.selected_device_index \in 0 .. Len(Candidates) - 1)
    /\ [](Candidates = <<>> => cal.step = "DeviceSelection")
    /\ [](cal.step # "DeviceSelection" =>
            /\ cal.selected_device_info = Some(Candidates[cal.selected_device_index + 1])
            /\ cal.selected_device_path = Some(Candidates[cal.selected_device_index + 1].path))
    /\ [][/\ Candidates' # Candidates =>
               \/ /\ cal.step = "DeviceSelection"
                  /\ Len(Candidates') = Len(Candidates) + 1
                  /\ SubSeq(Candidates', 1, Len(Candidates)) = Candidates
               \/ cal_ev' = "recalibrate" /\ Candidates' = <<>>
          /\ (cal.step = "DeviceSelection" /\ cal'.step # "DeviceSelection") =>
               /\ Candidates # <<>>
               /\ \E idx \in {cal.selected_device_index, DigitIndex("KEY_1"),
                                DigitIndex("KEY_2")} :
                     idx < Len(Candidates) /\ cal' = SelectDevice(cal, idx)]_vars

\* two devices were collected and the second one was selected
C39_Witness ==
    /\ panel = "paired"
    /\ Len(Candidates) = 2
    /\ cal.step = "TopLeft"
    /\ cal.selected_device_index = 1
    /\ cal.selected_device_path = Some(Candidates[2].path)
    /\ Candidates[1].path # Candidates[2].path

(***************************************************************************)
(* Claims on the finger table of the trackpad test screen                  *)
(***************************************************************************)

\* the fields of a finger that screen and handler are compared on
FingerFields(o) ==
    IF IsSome(o)
    THEN Some(<<Unwrap(o).x, Unwrap(o).y, Unwrap(o).pressure, Unwrap(o).major,
                Unwrap(o).width>>)
    ELSE None

\* C34: once the screen has taken the events of a flushed frame it holds a
\* finger in slot s exactly when slot s of the handler is allocated, with
\* the same x, y, pressure, major and width, for every slot 0 .. 9 and
\* every sequence of raw events, a lift and a new contact on one slot
\* within a frame included
C34_ScreenRefinesSlots ==
    [][(SynStep /\ IsSome(fingers')) =>
          \A s \in 0 .. NumSlots - 1 :
              FingerFields(Unwrap(fingers')[s]) = FingerFields(tp'.slots[s])]_vars

\* a frame lifted the finger of slot 0 and put a new contact there: the
\* screen took the lift and then the update, and holds the new finger
C34_Witness ==
    /\ tp_ev = SynEv
    /\ CountUps(tp_out, 0) = 1
    /\ HasUpdate(tp_out, 0)
    /\ IsSome(fingers)
    /\ Unwrap(fingers)[0] = Some([NewFingerState EXCEPT !.x = Some(7)])
    /\ FingerFields(tp.slots[0]) = FingerFields(Unwrap(fingers)[0])

====
